---- MODULE Spec2Model ----
(***************************************************************************)
(* Model of the js-klve tracer: record(code, {meta, options}).             *)
(*                                                                         *)
(*   source --transpile--> instrumented code --executeInstrumented-->      *)
(*   raw steps (_steps) --filterSteps--> filtered --renumber--> returned   *)
(*                                                                         *)
(* The instrumented code is kept as instruction lists, one per function    *)
(* body, in the evaluation order of the JavaScript the Babel plugin emits. *)
(* One action is one call into the reporter / the console, or one control  *)
(* transfer of the running program.                                        *)
(***************************************************************************)
EXTENDS Integers, Sequences, FiniteSets, TLC

VARIABLES
  source,        \* record's `code` argument (a name of Sources)
  limits,        \* [maxSteps, maxTime] = meta.max.steps / meta.max.time
  options,       \* record's config.options (read by filterSteps only)
  pc,            \* "start" | "running" | "resolved" | "rejected"
  code,          \* transpiled program: function id -> instruction list
  stack,         \* call stack of the running program: frames [fn, ip, act]
  handlers,      \* active try blocks of the program: [depth, fn, catchAt]
  now,           \* the wall clock Date.now() reads
  t0,            \* NS._t0
  steps,         \* NS._steps
  logs,          \* NS._logs
  filteredSteps, \* record's local filteredSteps (before renumbering)
  returned,      \* the list record resolves to
  rejection,     \* the value record rejects with (<<>>: none)
  thrown,        \* the value the executor threw into record's catch (<<>>: none)
  lastReport,    \* what the latest NS.report call saw and did
  trail,         \* per raw step: the node, activation and depth that made it
  calls,         \* every console.log call: [at |-> Len(steps) then, line]
  nextAct,       \* number of function activations so far
  bindings,      \* the variables of the running program: name -> binding
  NS,            \* NS.cache (the temporaries) and NS.return
  lastValue,     \* the value of the expression the program evaluated last
  lastCall,      \* the latest .call() of the instrumented code: its this
  givenSteps,    \* filterSteps called on its own: its steps argument
  givenOptions,  \* the options handed to verifyOptions and filterSteps
  output,        \* what filterSteps returned
  verdict,       \* what the verifyOptions functions did: returned or threw
  givenGraph,    \* describe called on its own: the JavaScript objects there are
  givenValue,    \* the value handed to describe
  describedValue,\* what describe returned (<<>>: not called yet)
  revivedValue,  \* what undescribe returned for it (<<>>: not called yet)
  FAKE_CONSTRUCTORS, \* the module's table of synthesized constructors
  invocation     \* the number of the running record invocation

\* What the running program holds besides its position: its variables, the
\* tracer's temporaries, the value and the call it made last.
machineVars == <<bindings, NS, lastValue, lastCall>>

vars == <<source, limits, options, pc, code, stack, handlers, now, t0, steps,
          logs, filteredSteps, returned, rejection, thrown, lastReport, trail,
          calls, nextAct, machineVars>>

\* The variables of the functions called on their own, outside record.
describeVars == <<givenGraph, givenValue, describedValue, revivedValue,
                  FAKE_CONSTRUCTORS, invocation>>
pureVars == <<givenSteps, givenOptions, output, verdict, describeVars>>
allVars == <<vars, pureVars>>

(***************************************************************************)
(* Bounds of the model.                                                    *)
(***************************************************************************)
MaxNow == 1     \* the clock runs from 0 to MaxNow
MaxK == 6       \* meta.max.steps ranges over null, 0..MaxK, and "large"
MaxT == 0       \* meta.max.time ranges over null, 0..MaxT
MaxTrace == 24  \* a program that does not end is followed for MaxTrace steps

\* A nullable number (meta.max.steps, meta.max.time): <<>> is null, <<k>> is k.
Null == <<>>
Some(k) == <<k>>

(***************************************************************************)
(* JavaScript values, shallow: a primitive is [type, cls, value]; an       *)
(* object carries its constructor name in cls and, for errors, its message *)
(* in value.                                                               *)
(***************************************************************************)
Prim(t, v) == [type |-> t, cls |-> "", value |-> v]
Obj(t, c, v) == [type |-> t, cls |-> c, value |-> v]
Undefined == Prim("undefined", "undefined")

(***************************************************************************)
(* Source programs, as node tables.  Node 1 is the Program.  `kids` are    *)
(* the child statements / expressions in evaluation order; `name` is the   *)
(* identifier name, declared name or property name; `val` is the value an  *)
(* expression evaluates to (the programs below are straight-line, so it    *)
(* is fixed).                                                              *)
(***************************************************************************)
Node(t, kids, name, val) == [type |-> t, kids |-> kids, name |-> name, val |-> val]
Stmt(t, kids, name) == Node(t, kids, name, Undefined)

\* let x = 1 + 2;
ProgDeclare == <<
  Stmt("Program", <<2>>, ""),
  Stmt("VariableDeclaration", <<3>>, "x"),
  Node("BinaryExpression", <<4, 5>>, "+", Prim("number", "3")),
  Node("NumericLiteral", <<>>, "", Prim("number", "1")),
  Node("NumericLiteral", <<>>, "", Prim("number", "2")) >>

\* function f() { 1; }  f();
ProgCall == <<
  Stmt("Program", <<2, 5>>, ""),
  Stmt("FunctionDeclaration", <<3>>, "f"),
  Stmt("ExpressionStatement", <<4>>, ""),
  Node("NumericLiteral", <<>>, "", Prim("number", "1")),
  Stmt("ExpressionStatement", <<6>>, ""),
  Node("CallExpression", <<7>>, "", Undefined),
  Node("Identifier", <<>>, "f", Obj("function", "Function", "f")) >>

\* console.log("a");
ProgLog == <<
  Stmt("Program", <<2>>, ""),
  Stmt("ExpressionStatement", <<3>>, ""),
  Node("CallExpression", <<4, 6>>, "", Undefined),
  Node("MemberExpression", <<5>>, "log", Obj("function", "Function", "log")),
  Node("Identifier", <<>>, "console", Obj("object", "Object", "console")),
  Node("StringLiteral", <<>>, "", Prim("string", "a")) >>

\* ["a", "b"].forEach(console.log);
ProgForEach == <<
  Stmt("Program", <<2>>, ""),
  Stmt("ExpressionStatement", <<3>>, ""),
  Node("CallExpression", <<4, 8>>, "", Undefined),
  Node("MemberExpression", <<5>>, "forEach", Obj("function", "Function", "forEach")),
  Node("ArrayExpression", <<6, 7>>, "", Obj("array", "Array", "ab")),
  Node("StringLiteral", <<>>, "", Prim("string", "a")),
  Node("StringLiteral", <<>>, "", Prim("string", "b")),
  Node("MemberExpression", <<9>>, "log", Obj("function", "Function", "log")),
  Node("Identifier", <<>>, "console", Obj("object", "Object", "console")) >>

\* throw new <cls>("test");
ProgThrowNew(cls) == <<
  Stmt("Program", <<2>>, ""),
  Stmt("ThrowStatement", <<3>>, ""),
  Node("NewExpression", <<4, 5>>, "", Obj("object", cls, "test")),
  Node("Identifier", <<>>, cls, Obj("function", "Function", cls)),
  Node("StringLiteral", <<>>, "", Prim("string", "test")) >>

\* throw "boom";   /   throw 42;
ProgThrowPrim(litType, v) == <<
  Stmt("Program", <<2>>, ""),
  Stmt("ThrowStatement", <<3>>, ""),
  Node(litType, <<>>, "", v) >>

\* try { throw "boom"; } catch (e) { 1; }
ProgTry == <<
  Stmt("Program", <<2>>, ""),
  Stmt("TryStatement", <<3, 6>>, ""),
  Stmt("BlockStatement", <<4>>, ""),
  Stmt("ThrowStatement", <<5>>, ""),
  Node("StringLiteral", <<>>, "", Prim("string", "boom")),
  Stmt("BlockStatement", <<7>>, ""),
  Stmt("ExpressionStatement", <<8>>, ""),
  Node("NumericLiteral", <<>>, "", Prim("number", "1")) >>

\* try { 1; } catch (e) { 2; }
ProgTryPasses == <<
  Stmt("Program", <<2>>, ""),
  Stmt("TryStatement", <<3, 6>>, ""),
  Stmt("BlockStatement", <<4>>, ""),
  Stmt("ExpressionStatement", <<5>>, ""),
  Node("NumericLiteral", <<>>, "", Prim("number", "1")),
  Stmt("BlockStatement", <<7>>, ""),
  Stmt("ExpressionStatement", <<8>>, ""),
  Node("NumericLiteral", <<>>, "", Prim("number", "2")) >>

\* function f() { 1; }
ProgOnlyDeclaration == <<
  Stmt("Program", <<2>>, ""),
  Stmt("FunctionDeclaration", <<3>>, "f"),
  Stmt("ExpressionStatement", <<4>>, ""),
  Node("NumericLiteral", <<>>, "", Prim("number", "1")) >>

\* The empty source string.
ProgEmpty == << Stmt("Program", <<>>, "") >>

\* The value of an expression that is computed when the program runs: it
\* depends on the variables.
Computed == Prim("computed", "")

\* An update expression: `name` is its operator.
Update(operator, prefix, kids) ==
  [type |-> "UpdateExpression", kids |-> kids, name |-> operator, val |-> Computed,
   prefix |-> prefix]

\* let i = 0; i < 1; i++   as nodes k+1 .. k+7 (declaration, test, update).
ForSlots(k) == <<
  Stmt("VariableDeclaration", <<k + 2>>, "i"),
  Node("NumericLiteral", <<>>, "", Prim("number", "0")),
  Node("BinaryExpression", <<k + 4, k + 5>>, "<", Computed),
  Node("Identifier", <<>>, "i", Computed),
  Node("NumericLiteral", <<>>, "", Prim("number", "1")),
  Update("++", FALSE, <<k + 7>>),
  Node("Identifier", <<>>, "i", Computed) >>

\* for (let i = 0; i < 1; i++) {}
\* The kids of a for statement are its init, test, update and body; 0 is an
\* absent one.
ProgFor ==
  << Stmt("Program", <<2>>, ""),
     Stmt("ForStatement", <<3, 5, 8, 10>>, "") >>
  \o ForSlots(2)
  \o << Stmt("BlockStatement", <<>>, "") >>

\* for (let i = 0; i < 1; i++) { continue; }
ProgForContinue ==
  << Stmt("Program", <<2>>, ""),
     Stmt("ForStatement", <<3, 5, 8, 10>>, "") >>
  \o ForSlots(2)
  \o << Stmt("BlockStatement", <<11>>, ""),
        Stmt("ContinueStatement", <<>>, "") >>

\* let i = 0; for (; i < 1; i++) {}
ProgForNoInit ==
  << Stmt("Program", <<3, 2>>, ""),
     Stmt("ForStatement", <<0, 5, 8, 10>>, "") >>
  \o ForSlots(2)
  \o << Stmt("BlockStatement", <<>>, "") >>

\* for (let i = 0; i < 1; ) { i++; }
ProgForNoUpdate ==
  << Stmt("Program", <<2>>, ""),
     Stmt("ForStatement", <<3, 5, 0, 10>>, "") >>
  \o ForSlots(2)
  \o << Stmt("BlockStatement", <<11>>, ""),
        Stmt("ExpressionStatement", <<8>>, "") >>

\* for (let i = 0; ; i++) { break; }
ProgForNoTest ==
  << Stmt("Program", <<2>>, ""),
     Stmt("ForStatement", <<3, 0, 8, 10>>, "") >>
  \o ForSlots(2)
  \o << Stmt("BlockStatement", <<11>>, ""),
        Stmt("BreakStatement", <<>>, "") >>

\* let x = 0; while (x < 1) { x++; }
ProgWhile == <<
  Stmt("Program", <<2, 4>>, ""),
  Stmt("VariableDeclaration", <<3>>, "x"),
  Node("NumericLiteral", <<>>, "", Prim("number", "0")),
  Stmt("WhileStatement", <<5, 8>>, ""),
  Node("BinaryExpression", <<6, 7>>, "<", Computed),
  Node("Identifier", <<>>, "x", Computed),
  Node("NumericLiteral", <<>>, "", Prim("number", "1")),
  Stmt("BlockStatement", <<9>>, ""),
  Stmt("ExpressionStatement", <<10>>, ""),
  Update("++", FALSE, <<11>>),
  Node("Identifier", <<>>, "x", Computed) >>

\* let x = 0; let y = x++;   /   let x = 0; let y = ++x;
ProgUpdate(prefix) == <<
  Stmt("Program", <<2, 4>>, ""),
  Stmt("VariableDeclaration", <<3>>, "x"),
  Node("NumericLiteral", <<>>, "", Prim("number", "0")),
  Stmt("VariableDeclaration", <<5>>, "y"),
  Update("++", prefix, <<6>>),
  Node("Identifier", <<>>, "x", Computed) >>

\* function f() { return 1; }  f();
ProgReturn == <<
  Stmt("Program", <<2, 5>>, ""),
  Stmt("FunctionDeclaration", <<3>>, "f"),
  Stmt("ReturnStatement", <<4>>, ""),
  Node("NumericLiteral", <<>>, "", Prim("number", "1")),
  Stmt("ExpressionStatement", <<6>>, ""),
  Node("CallExpression", <<7>>, "", Computed),
  Node("Identifier", <<>>, "f", Obj("function", "Function", "f")) >>

\* Object.create(null);   The value is an object with no prototype, so with
\* no constructor property.
ProgNullPrototype == <<
  Stmt("Program", <<2>>, ""),
  Stmt("ExpressionStatement", <<3>>, ""),
  Node("CallExpression", <<4, 6>>, "", Obj("object", "", "null prototype")),
  Node("MemberExpression", <<5>>, "create", Obj("function", "Function", "create")),
  Node("Identifier", <<>>, "Object", Obj("function", "Function", "Object")),
  Node("NullLiteral", <<>>, "", Prim("null", "null")) >>

\* The sources record is called with.  Those of Programs parse; the others
\* make Babel.transform throw.
Programs == [
  declare |-> ProgDeclare,
  call |-> ProgCall,
  log |-> ProgLog,
  forEach |-> ProgForEach,
  throwError |-> ProgThrowNew("Error"),
  throwTypeError |-> ProgThrowNew("TypeError"),
  throwSyntaxError |-> ProgThrowNew("SyntaxError"),
  throwString |-> ProgThrowPrim("StringLiteral", Prim("string", "boom")),
  throwNumber |-> ProgThrowPrim("NumericLiteral", Prim("number", "42")),
  tryCatch |-> ProgTry,
  tryPasses |-> ProgTryPasses,
  onlyDeclaration |-> ProgOnlyDeclaration,
  empty |-> ProgEmpty,
  forLoop |-> ProgFor,
  forContinue |-> ProgForContinue,
  forNoInit |-> ProgForNoInit,
  forNoUpdate |-> ProgForNoUpdate,
  forNoTest |-> ProgForNoTest,
  whileLoop |-> ProgWhile,
  postfix |-> ProgUpdate(FALSE),
  prefix |-> ProgUpdate(TRUE),
  returnValue |-> ProgReturn,
  nullPrototype |-> ProgNullPrototype ]

FailingSources == {"const = 1;", "syntax error without loc", "for (;;) {}"}

Sources == DOMAIN Programs \cup FailingSources

(***************************************************************************)
(* Values thrown.  An exception is a record [cls, message] with, when the  *)
(* class has them, loc (Babel's SyntaxError) or kind and magnitude         *)
(* (LimitExceededError).  A thrown primitive has its type as cls and its   *)
(* value as message.                                                       *)
(***************************************************************************)
ErrorClasses == {"Error", "TypeError", "SyntaxError", "LimitExceededError",
                 "ParseError", "RuntimeError"}

\* A message is a text and the numbers a template string put into it.
Msg(text) == <<text, <<>>>>
Exception(cls, message) == [cls |-> cls, message |-> message]
WithLoc(e, line, column) ==
  [cls |-> e.cls, message |-> e.message, loc |-> [line |-> line, column |-> column]]

\* new LimitExceededError(message, kind, magnitude); the message is kept as
\* its template and the numbers put into it.
LimitExceededError(template, numbers, kind, magnitude) ==
  [cls |-> "LimitExceededError", message |-> <<template, numbers>>,
   kind |-> kind, magnitude |-> magnitude]

\* `throw v` for a JavaScript value v of the program.
ThrownValue(v) ==
  IF v.type = "object"
  THEN Exception(v.cls, Msg(v.value))
  ELSE Exception(v.type, Msg(v.value))

\* error instanceof C, for the classes record's catch tests.
InstanceOf(e, c) ==
  IF c = "Error" THEN e.cls \in ErrorClasses ELSE e.cls = c

\* The parser's failures among the sources.
ParserFailures == {"const = 1;", "syntax error without loc"}

\* The for statements of a program whose test or update is absent: the
\* plugin sets _reportBefore on both without looking (forNode.test is null).
ForWithoutTestOrUpdate(P) ==
  {n \in DOMAIN P : P[n].type = "ForStatement"
                     /\ (P[n].kids[2] = 0 \/ P[n].kids[3] = 0)}

\* The exception Babel.transform throws on a source (<<>>: none): the
\* parser's SyntaxError, with or without loc, or the TypeError of the plugin
\* setting _reportBefore on the absent test or update of a for statement.
BabelTransformThrows(src) ==
  CASE src = "const = 1;" ->
         <<WithLoc(Exception("SyntaxError", Msg("Unexpected token (1:6)")), 1, 6)>>
    [] src = "syntax error without loc" ->
         <<Exception("SyntaxError", Msg("syntax error"))>>
    [] src = "for (;;) {}" ->
         <<Exception("TypeError", Msg("Cannot set properties of null"))>>
    [] src \in DOMAIN Programs /\ ForWithoutTestOrUpdate(Programs[src]) # {} ->
         <<Exception("TypeError", Msg("Cannot set properties of null"))>>
    [] OTHER -> <<>>

(***************************************************************************)
(* The Babel plugin (transpilerPlugin).                                    *)
(***************************************************************************)
ExpressionTypes == {"NumericLiteral", "StringLiteral", "BooleanLiteral",
                    "Identifier", "BinaryExpression", "CallExpression",
                    "NewExpression", "MemberExpression", "ArrayExpression",
                    "NullLiteral", "UpdateExpression"}

ACTION_MAP == [
  Identifier |-> "read", MemberExpression |-> "access",
  AssignmentExpression |-> "assign", UpdateExpression |-> "update",
  VariableDeclaration |-> "declare", CallExpression |-> "call",
  NewExpression |-> "construct", BinaryExpression |-> "compute",
  UnaryExpression |-> "compute", LogicalExpression |-> "compute",
  SequenceExpression |-> "compute", ConditionalExpression |-> "branch",
  IfStatement |-> "branch", ForStatement |-> "loop", WhileStatement |-> "loop",
  TryStatement |-> "protect", ExpressionStatement |-> "evaluate",
  ArrowFunctionExpression |-> "define", FunctionExpression |-> "define",
  NumericLiteral |-> "literal", StringLiteral |-> "literal",
  BooleanLiteral |-> "literal", ArrayExpression |-> "literal",
  ObjectExpression |-> "literal" ]

\* A detail field holding a string, or null.
JStr(s) == [t |-> "string", v |-> s]
JNull == [t |-> "null", v |-> ""]

\* extractDetail(node), for the node types of Programs.  The name-like
\* fields (name, target, callee, property) are JStr or JNull; the others
\* are kept as they are.
extractDetail(P, n) ==
  LET nd == P[n]
      type == nd.type
      action == IF type \in DOMAIN ACTION_MAP THEN ACTION_MAP[type] ELSE "unknown"
  IN  CASE type = "BinaryExpression" ->
             [action |-> action, operator |-> nd.name]
        [] type = "VariableDeclaration" ->
             [action |-> action, kind |-> "let", target |-> JStr(nd.name)]
        [] type = "MemberExpression" ->
             [action |-> action, computed |-> FALSE, property |-> JStr(nd.name)]
        [] type = "Identifier" ->
             [action |-> action, name |-> JStr(nd.name)]
        [] type \in {"CallExpression", "NewExpression"} ->
             LET callee == P[nd.kids[1]] IN
             [action |-> action,
              arity |-> Len(nd.kids) - 1,
              callee |-> IF callee.type \in {"Identifier", "MemberExpression"}
                         THEN JStr(callee.name) ELSE JNull,
              method |-> callee.type = "MemberExpression"]
        [] type = "UpdateExpression" ->
             [action |-> action, operator |-> nd.name, prefix |-> nd.prefix,
              target |-> JStr(P[nd.kids[1]].name)]
        [] type = "ForStatement" ->
             [action |-> action, hasInit |-> nd.kids[1] # 0,
              hasTest |-> nd.kids[2] # 0, hasUpdate |-> nd.kids[3] # 0]
        [] type = "TryStatement" ->
             [action |-> action, hasCatch |-> TRUE, hasFinally |-> FALSE]
        [] type = "ArrayExpression" ->
             [action |-> action, elementCount |-> Len(nd.kids)]
        [] OTHER -> [action |-> action]

\* The node whose kids hold n (0 for the Program).
Parent(P, n) ==
  IF \E m \in DOMAIN P : \E i \in DOMAIN P[m].kids : P[m].kids[i] = n
  THEN CHOOSE m \in DOMAIN P : \E i \in DOMAIN P[m].kids : P[m].kids[i] = n
  ELSE 0

\* Nodes that own a lexical scope the snapshots show: the program, a
\* function, a block (the handler block of a try stands for its catch
\* clause's scope), a for statement (the block it is replaced by holds its
\* declaration).  The scopes of the synthesized while (true) and of its body
\* are never marked _original or are marked _definitelySkip.
OwnsScope(P, n) ==
  P[n].type \in {"Program", "FunctionDeclaration", "BlockStatement", "ForStatement"}

\* meta()'s walk up the scope chain from the scope of node n: the scopes
\* pushed, in the order pushed (currentScope first, then its parents).
\* The scope chain with the scopes pushed from the program's scope inwards.
RECURSIVE ScopeChainOutermostFirst(_, _)
ScopeChainOutermostFirst(P, n) ==
  IF n = 0 THEN <<>>
  ELSE IF OwnsScope(P, n) THEN Append(ScopeChainOutermostFirst(P, Parent(P, n)), n)
  ELSE ScopeChainOutermostFirst(P, Parent(P, n))

RECURSIVE ScopeChain(_, _)
ScopeChain(P, n) ==
  IF n = 0 THEN <<>>
  ELSE IF OwnsScope(P, n) THEN <<n>> \o ScopeChain(P, Parent(P, n))
  ELSE ScopeChain(P, Parent(P, n))

\* meta naming the type of the enclosing node instead of the node's own.
metaOfParent(P, n, time) ==
  [category |-> IF P[n].type \in ExpressionTypes THEN "expression" ELSE "statement",
   time |-> time,
   loc |-> n,
   type |-> P[Parent(P, n)].type,
   scopes |-> ScopeChain(P, Parent(P, n)),
   detail |-> extractDetail(P, n)]

\* meta(category, node, scope, time): the metadata literal of a reporter
\* call.  loc is the node's source location; a node's number stands for it.
meta(P, n, time) ==
  [category |-> IF P[n].type \in ExpressionTypes THEN "expression" ELSE "statement",
   time |-> time,
   loc |-> n,
   type |-> P[n].type,
   scopes |-> ScopeChain(P, Parent(P, n)),
   detail |-> extractDetail(P, n)]

\* Instructions of the instrumented code.
REPORT(n, time) == [op |-> "report", node |-> n, time |-> time, arg |-> 0]
Instr(op, n, arg) == [op |-> op, node |-> n, time |-> "", arg |-> arg]

\* The reporter call of an update expression always reading the target again.
REPORTOFTarget(n, time, from) == [op |-> "report", node |-> n, time |-> time, arg |-> -1]

\* A reporter call whose value is not the node's own expression: the
\* temporary NS.cache[from], or with from = -1 the target of the update
\* expression read once more (the cloned argument).
REPORTOF(n, time, from) == [op |-> "report", node |-> n, time |-> time, arg |-> from]

\* The temporary makeTemporaryVariable() hands out for a node: NS.cache[k]
\* with a fresh k; the node's number serves as k.
makeTemporaryVariable(n) == n

\* _reportBefore: set on the test of a while statement and on the test and
\* the update of a for statement.
ReportBefore(P, n) ==
  LET up == Parent(P, n) IN
  /\ up # 0
  /\ \/ P[up].type = "WhileStatement" /\ P[up].kids[1] = n
     \/ P[up].type = "ForStatement" /\ (P[up].kids[2] = n \/ P[up].kids[3] = n)

RECURSIVE ExpressionCode(_, _), ExpressionsCode(_, _)

\* visitor.Expression evaluating the receiver of a member call twice:
\* report(o.m, callee).call(o, ...args).
ExpressionCodeReceiverTwice(P, n) ==
  LET nd == P[n]
      maybeBeforeReporter == IF ReportBefore(P, n) THEN <<REPORT(n, "before")>> ELSE <<>>
  IN
  maybeBeforeReporter \o
  CASE nd.type = "CallExpression" ->
         LET callee == nd.kids[1]
             arguments == Tail(nd.kids)
             TMP == makeTemporaryVariable(n)
         IN  IF P[callee].type = "MemberExpression"
             THEN ExpressionsCode(P, P[callee].kids)
                    \o <<REPORT(callee, "after")>>
                    \o ExpressionsCode(P, P[callee].kids)
                    \o <<Instr("set", n, TMP)>>
                    \o ExpressionsCode(P, arguments)
                    \o <<Instr("call", n, TMP), REPORT(n, "after")>>
             ELSE ExpressionCode(P, callee)
                    \o ExpressionsCode(P, arguments)
                    \o <<Instr("call", n, 0), REPORT(n, "after")>>
    [] nd.type = "UpdateExpression" ->
         LET TMP == makeTemporaryVariable(n) IN
         IF nd.prefix
         THEN ExpressionsCode(P, nd.kids)
                \o <<Instr("write", n, 0), REPORTOF(n, "after", -1)>>
         ELSE ExpressionsCode(P, nd.kids)
                \o <<Instr("set", n, TMP), Instr("write", n, TMP),
                      REPORTOF(n, "after", TMP)>>
    [] OTHER -> ExpressionsCode(P, nd.kids) \o <<REPORT(n, "after")>>

\* visitor.Expression: the code an expression node becomes, in evaluation
\* order.  maybeBeforeReporter is a before report for a node carrying
\* _reportBefore and the null literal, which does nothing, otherwise.
ExpressionCode(P, n) ==
  LET nd == P[n]
      maybeBeforeReporter == IF ReportBefore(P, n) THEN <<REPORT(n, "before")>> ELSE <<>>
  IN
  maybeBeforeReporter \o
  CASE nd.type = "CallExpression" ->
         LET callee == nd.kids[1]
             arguments == Tail(nd.kids)
             TMP == makeTemporaryVariable(n)
         IN  IF P[callee].type = "MemberExpression"
             \* contextual: report((TMP = o).m, callee).call(TMP, ...args)
             THEN ExpressionsCode(P, P[callee].kids)
                    \o <<Instr("set", n, TMP), REPORT(callee, "after")>>
                    \o ExpressionsCode(P, arguments)
                    \o <<Instr("call", n, TMP), REPORT(n, "after")>>
             \* callee.call(undefined, ...args)
             ELSE ExpressionCode(P, callee)
                    \o ExpressionsCode(P, arguments)
                    \o <<Instr("call", n, 0), REPORT(n, "after")>>
    [] nd.type = "UpdateExpression" ->
         LET TMP == makeTemporaryVariable(n) IN
         IF nd.prefix
         \* (before?, x = x + 1, report(x_clone, after))
         THEN ExpressionsCode(P, nd.kids)
                \o <<Instr("write", n, 0), REPORTOF(n, "after", -1)>>
         \* (before?, TMP = x, x = TMP + 1, report(TMP, after))
         ELSE ExpressionsCode(P, nd.kids)
                \o <<Instr("set", n, TMP), Instr("write", n, TMP),
                      REPORTOF(n, "after", TMP)>>
    \* normal case: (before?, report(E, meta_after))
    [] OTHER -> ExpressionsCode(P, nd.kids) \o <<REPORT(n, "after")>>

ExpressionsCode(P, ns) ==
  IF ns = <<>> THEN <<>>
  ELSE ExpressionCode(P, Head(ns)) \o ExpressionsCode(P, Tail(ns))

\* The for or while statement a break or continue statement belongs to.
RECURSIVE EnclosingLoop(_, _)
EnclosingLoop(P, n) ==
  LET up == Parent(P, n) IN
  IF up = 0 THEN 0
  ELSE IF P[up].type \in {"ForStatement", "WhileStatement"} THEN up
  ELSE EnclosingLoop(P, up)

RECURSIVE StatementCode(_, _), StatementsCode(_, _)

\* visitor.Statement.enter on a for statement: the before report, then the
\* statement replaced by
\*   { init; while (true) { TMP = test; if (!TMP) break; body; update; } }
\* with _reportBefore set on test and update.  The replacement has no loc, so
\* exit inserts no after report.  An absent init is the statement `null;`.
ForCode(P, n) ==
  LET nd == P[n]
      TMP == makeTemporaryVariable(n)
      init == nd.kids[1]
  IN  <<REPORT(n, "before")>>
        \o (IF init = 0 THEN <<>>
            ELSE IF P[init].type = "VariableDeclaration" THEN StatementCode(P, init)
            ELSE ExpressionCode(P, init))
        \o <<Instr("while", n, 0)>>
        \o ExpressionCode(P, nd.kids[2])
        \o <<Instr("set", n, TMP), Instr("unless", n, TMP)>>
        \o StatementCode(P, nd.kids[4])
        \o ExpressionCode(P, nd.kids[3])
        \o <<Instr("again", n, 0)>>

\* The while statement's rewriting testing before each iteration but the
\* first (a do-while loop).
WhileCodeBodyFirst(P, n) ==
  LET nd == P[n]
      TMP == makeTemporaryVariable(n)
  IN  <<REPORT(n, "before"), Instr("while", n, 0)>>
        \o StatementCode(P, nd.kids[2])
        \o ExpressionCode(P, nd.kids[1])
        \o <<Instr("set", n, TMP), Instr("unless", n, TMP)>>
        \o <<Instr("again", n, 0)>>

\* visitor.Statement.enter on a while statement: the before report, then the
\* statement replaced by
\*   while (true) { TMP = test; if (!TMP) break; body }
\* with _reportBefore set on the test; no after report.
WhileCode(P, n) ==
  LET nd == P[n]
      TMP == makeTemporaryVariable(n)
  IN  <<REPORT(n, "before"), Instr("while", n, 0)>>
        \o ExpressionCode(P, nd.kids[1])
        \o <<Instr("set", n, TMP), Instr("unless", n, TMP)>>
        \o StatementCode(P, nd.kids[2])
        \o <<Instr("again", n, 0)>>

\* visitor.Statement.enter on a return statement in a statement list: the
\* before report, then the statement replaced by NS.return = argument; no
\* after report.  `return NS.return;` is put after the sibling that follows.
ReturnCode(P, n) ==
  <<REPORT(n, "before")>>
    \o ExpressionsCode(P, P[n].kids)
    \o <<Instr("setReturn", n, Len(P[n].kids))>>

\* Statements the plugin rewrites or that transfer control.
Rewritten(P, n) ==
  CASE P[n].type = "ForStatement" -> ForCode(P, n)
    [] P[n].type = "WhileStatement" -> WhileCode(P, n)
    [] P[n].type = "ReturnStatement" -> ReturnCode(P, n) \o <<Instr("return", n, 0)>>
    [] P[n].type = "ContinueStatement" ->
         <<REPORT(n, "before"), Instr("continue", EnclosingLoop(P, n), 0),
           REPORT(n, "after")>>
    [] P[n].type = "BreakStatement" ->
         <<REPORT(n, "before"), Instr("break", EnclosingLoop(P, n), 0),
           REPORT(n, "after")>>

RewrittenTypes == {"ForStatement", "WhileStatement", "ReturnStatement",
                   "ContinueStatement", "BreakStatement"}

\* visitor.Statement with the times of enter and exit exchanged.
StatementCodeTimesExchanged(P, n) ==
  LET nd == P[n] IN
  CASE nd.type = "FunctionDeclaration" -> <<>>
    [] nd.type = "BlockStatement" -> StatementsCode(P, nd.kids)
    [] nd.type \in RewrittenTypes -> Rewritten(P, n)
    [] nd.type = "VariableDeclaration" ->
         <<REPORT(n, "after")>>
           \o ExpressionsCode(P, nd.kids)
           \o <<Instr("declare", n, Len(nd.kids)), REPORT(n, "before")>>
    [] nd.type = "TryStatement" ->
         LET block == StatementCode(P, nd.kids[1])
             handler == StatementCode(P, nd.kids[2])
         IN  <<REPORT(n, "after"), Instr("try", n, Len(block) + 2)>>
               \o block
               \o <<Instr("endtry", n, Len(handler) + 1)>>
               \o handler
               \o <<REPORT(n, "before")>>
    [] nd.type = "ThrowStatement" ->
         <<REPORT(n, "after")>>
           \o ExpressionsCode(P, nd.kids)
           \o <<Instr("throw", n, 0), REPORT(n, "before")>>
    [] OTHER ->
         <<REPORT(n, "after")>>
           \o ExpressionsCode(P, nd.kids)
           \o <<REPORT(n, "before")>>

\* visitor.Statement enter and exit: a before report as the sibling before
\* the statement and an after report as the sibling after it, for every
\* statement but blocks and function declarations.
StatementCode(P, n) ==
  LET nd == P[n] IN
  CASE nd.type = "FunctionDeclaration" -> <<>>
    [] nd.type = "BlockStatement" -> StatementsCode(P, nd.kids)
    [] nd.type \in RewrittenTypes -> Rewritten(P, n)
    [] nd.type = "VariableDeclaration" ->
         <<REPORT(n, "before")>>
           \o ExpressionsCode(P, nd.kids)
           \o <<Instr("declare", n, Len(nd.kids)), REPORT(n, "after")>>
    [] nd.type = "TryStatement" ->
         LET block == StatementCode(P, nd.kids[1])
             handler == StatementCode(P, nd.kids[2])
         IN  <<REPORT(n, "before"), Instr("try", n, Len(block) + 2)>>
               \o block
               \o <<Instr("endtry", n, Len(handler) + 1)>>
               \o handler
               \o <<REPORT(n, "after")>>
    [] nd.type = "ThrowStatement" ->
         <<REPORT(n, "before")>>
           \o ExpressionsCode(P, nd.kids)
           \o <<Instr("throw", n, 0), REPORT(n, "after")>>
    [] OTHER ->
         <<REPORT(n, "before")>>
           \o ExpressionsCode(P, nd.kids)
           \o <<REPORT(n, "after")>>

\* A statement list.  The `return NS.return;` of a return statement goes
\* after the sibling at key + 1 (reportAfter), when there is one.
StatementsCode(P, ns) ==
  IF ns = <<>> THEN <<>>
  ELSE IF P[Head(ns)].type = "ReturnStatement" /\ Tail(ns) # <<>>
  THEN ReturnCode(P, Head(ns))
         \o StatementCode(P, Head(Tail(ns)))
         \o <<Instr("return", Head(ns), 0)>>
         \o StatementsCode(P, Tail(Tail(ns)))
  ELSE StatementCode(P, Head(ns)) \o StatementsCode(P, Tail(ns))

\* Function bodies of a program: the Program node and its declarations.
Functions(P) == {n \in DOMAIN P : P[n].type \in {"Program", "FunctionDeclaration"}}
Main == 1

\* The code Babel.transform returns for a program: the instrumented code.
BabelTransformCode(P) == [f \in Functions(P) |-> StatementsCode(P, P[f].kids)]

\* result.code is the empty string (falsy) when the program has no statement.
NoCode(P) == P[Main].kids = <<>>

\* transpile without its check of result.code.
transpileThrowsUnchecked(src) == BabelTransformThrows(src)

\* transpile(code, {ns}): the exception it throws (<<>>: none, it returns
\* result.code).
transpileThrows(src) ==
  IF BabelTransformThrows(src) # <<>> THEN BabelTransformThrows(src)
  ELSE IF NoCode(Programs[src])
  THEN <<Exception("Error", Msg("Babel transform failed to produce code"))>>
  ELSE <<>>

(***************************************************************************)
(* describe / undescribe, on the values of these programs: primitives and  *)
(* objects whose own enumerable entries are not followed.                  *)
(***************************************************************************)
PrimitiveTypes == {"string", "boolean", "number", "null", "undefined"}

describe(value) ==
  IF value.type \in PrimitiveTypes
  THEN <<[category |-> "primitive", type |-> value.type, value |-> value.value],
         <<>> >>
  ELSE <<[category |-> "compound", at |-> 0],
         << [type |-> IF value.type \in {"function", "array"}
                      THEN value.type ELSE "object",
             cname |-> IF value.type = "object" THEN value.cls ELSE "",
             entries |-> <<>>] >> >>

undescribe(described) ==
  LET node == described[1]
      heap == described[2]
  IN  IF node.category = "primitive"
      THEN Prim(node.type, node.value)
      ELSE LET object == heap[node.at + 1] IN
           CASE object.type = "function" -> Obj("function", "Function", "")
             [] object.type = "array" -> Obj("array", "Array", "")
             [] object.cname # "" -> Obj("object", object.cname, "")
             [] OTHER -> Obj("object", "Object", "")

(***************************************************************************)
(* filter-steps: options, defaults, the three filters and the data strip.  *)
(* A record with an optional field is a function whose DOMAIN may lack it. *)
(***************************************************************************)
CONFIG_TO_AST ==
  ("declarations.variable" :> "VariableDeclaration") @@
  ("loops.for" :> "ForStatement") @@
  ("loops.while" :> "WhileStatement") @@
  ("conditionals.if" :> "IfStatement") @@
  ("conditionals.ternary" :> "ConditionalExpression") @@
  ("blocks.try" :> "TryStatement") @@
  ("blocks.expressionStatement" :> "ExpressionStatement") @@
  ("calls.call" :> "CallExpression") @@
  ("calls.new" :> "NewExpression") @@
  ("access.member" :> "MemberExpression") @@
  ("access.identifier" :> "Identifier") @@
  ("operators.binary" :> "BinaryExpression") @@
  ("operators.unary" :> "UnaryExpression") @@
  ("operators.logical" :> "LogicalExpression") @@
  ("operators.assignment" :> "AssignmentExpression") @@
  ("operators.update" :> "UpdateExpression") @@
  ("operators.sequence" :> "SequenceExpression") @@
  ("literals.numeric" :> "NumericLiteral") @@
  ("literals.string" :> "StringLiteral") @@
  ("literals.boolean" :> "BooleanLiteral") @@
  ("literals.array" :> "ArrayExpression") @@
  ("literals.object" :> "ObjectExpression") @@
  ("functions.arrow" :> "ArrowFunctionExpression") @@
  ("functions.expression" :> "FunctionExpression")

ALL_AST_TYPES == {CONFIG_TO_AST[path] : path \in DOMAIN CONFIG_TO_AST}

AST_TO_CONFIG ==
  [astType \in ALL_AST_TYPES |->
     CHOOSE path \in DOMAIN CONFIG_TO_AST : CONFIG_TO_AST[path] = astType]

\* o?.[key] ?? default
OrDefault(o, key, default) == IF key \in DOMAIN o THEN o[key] ELSE default

DEFAULT_FILTER_CONFIG == [
  names |-> [mode |-> "none", names |-> {}],
  timing |-> [before |-> TRUE, after |-> TRUE],
  data |-> [scopes |-> TRUE, value |-> TRUE, logs |-> TRUE, dt |-> TRUE, loc |-> TRUE] ]

\* fillNodes, flattened as buildNodeLookup flattens it: config path -> toggle.
\* opts.nodes holds the toggles the options give, by path.
fillNodes(opts) ==
  [path \in DOMAIN CONFIG_TO_AST |-> OrDefault(OrDefault(opts, "nodes", <<>>), path, TRUE)]

\* fillNameConfig letting a non-empty exclude list win over the include list.
fillNameConfigExcludeFirst(config) ==
  LET include == IF "include" \in DOMAIN config THEN config.include ELSE <<>>
      exclude == IF "exclude" \in DOMAIN config THEN config.exclude ELSE <<>>
  IN  IF Len(exclude) > 0
      THEN [mode |-> "exclude", names |-> {exclude[i] : i \in DOMAIN exclude}]
      ELSE IF Len(include) > 0
      THEN [mode |-> "include", names |-> {include[i] : i \in DOMAIN include}]
      ELSE [mode |-> "none", names |-> {}]

fillNameConfig(config) ==
  IF config = <<>> THEN [mode |-> "none", names |-> {}]
  ELSE IF Len(OrDefault(config, "include", <<>>)) > 0
  THEN [mode |-> "include",
        names |-> {config.include[i] : i \in DOMAIN config.include}]
  ELSE IF Len(OrDefault(config, "exclude", <<>>)) > 0
  THEN [mode |-> "exclude",
        names |-> {config.exclude[i] : i \in DOMAIN config.exclude}]
  ELSE [mode |-> "none", names |-> {}]

fillConfig(opts) ==
  LET d == DEFAULT_FILTER_CONFIG
      filter == OrDefault(opts, "filter", <<>>)
      timing == OrDefault(filter, "timing", <<>>)
      data == OrDefault(filter, "data", <<>>)
  IN  [nodes |-> fillNodes(opts),
       names |-> fillNameConfig(OrDefault(filter, "names", <<>>)),
       timing |-> [before |-> OrDefault(timing, "before", d.timing.before),
                   after |-> OrDefault(timing, "after", d.timing.after)],
       data |-> [scopes |-> OrDefault(data, "scopes", d.data.scopes),
                 value |-> OrDefault(data, "value", d.data.value),
                 logs |-> OrDefault(data, "logs", d.data.logs),
                 dt |-> OrDefault(data, "dt", d.data.dt),
                 loc |-> OrDefault(data, "loc", d.data.loc)]]

extractStepNames(step) ==
  IF "detail" \notin DOMAIN step THEN <<>>
  ELSE LET d == step.detail
           pick(field) == IF field \in DOMAIN d /\ d[field].t = "string"
                          THEN <<d[field].v>> ELSE <<>>
       IN  pick("name") \o pick("target") \o pick("callee") \o pick("property")

\* passesNameFilter without its exemptions of init and nameless steps.
passesNameFilterNoExemption(step, nameConfig) ==
  IF nameConfig.mode = "none" THEN TRUE
  ELSE LET names == extractStepNames(step) IN
       IF nameConfig.mode = "include"
       THEN \E i \in DOMAIN names : names[i] \in nameConfig.names
       ELSE ~ \E i \in DOMAIN names : names[i] \in nameConfig.names

\* passesNameFilter dropping in include mode the steps that have no name.
passesNameFilterDropsNameless(step, nameConfig) ==
  IF nameConfig.mode = "none" THEN TRUE
  ELSE IF step.category = "init" THEN TRUE
  ELSE LET names == extractStepNames(step) IN
       IF nameConfig.mode = "include"
       THEN \E i \in DOMAIN names : names[i] \in nameConfig.names
       ELSE ~ \E i \in DOMAIN names : names[i] \in nameConfig.names

\* passesNameFilter asking in include mode that every candidate be listed.
passesNameFilterEveryName(step, nameConfig) ==
  IF nameConfig.mode = "none" THEN TRUE
  ELSE IF step.category = "init" THEN TRUE
  ELSE LET names == extractStepNames(step) IN
       IF Len(names) = 0 THEN TRUE
       ELSE IF nameConfig.mode = "include"
       THEN \A i \in DOMAIN names : names[i] \in nameConfig.names
       ELSE ~ \E i \in DOMAIN names : names[i] \in nameConfig.names

passesNameFilter(step, nameConfig) ==
  IF nameConfig.mode = "none" THEN TRUE
  ELSE IF step.category = "init" THEN TRUE
  ELSE LET names == extractStepNames(step) IN
       IF Len(names) = 0 THEN TRUE
       ELSE IF nameConfig.mode = "include"
       THEN \E i \in DOMAIN names : names[i] \in nameConfig.names
       ELSE ~ \E i \in DOMAIN names : names[i] \in nameConfig.names

\* buildNodeLookup reading every AST type's toggle from one config path.
buildNodeLookupOnePath(nodes) ==
  [astType \in DOMAIN AST_TO_CONFIG |-> nodes["calls.call"]]

buildNodeLookup(nodes) ==
  [astType \in DOMAIN AST_TO_CONFIG |-> nodes[AST_TO_CONFIG[astType]]]

passesNodeAndTimingFilters(step, filled, nodeLookup) ==
  IF step.category = "init" THEN TRUE
  ELSE IF "time" \in DOMAIN step /\ ~filled.timing[step.time] THEN FALSE
  ELSE IF "type" \in DOMAIN step /\ step.type \in DOMAIN nodeLookup
          /\ nodeLookup[step.type] = FALSE THEN FALSE
  ELSE TRUE

\* stripData copying dt whatever its flag.
stripDataKeepsDt(step, dataConfig) ==
  LET keep == {"step", "category", "type", "time", "detail", "dt"}
                \cup {f \in {"loc", "scopes", "value", "logs"} : dataConfig[f]}
      has(f) == f \in DOMAIN step /\ (f = "value" => step.value # Undefined)
  IN  [f \in {g \in keep : has(g)} |-> step[f]]

\* The fields stripData copies: step and category always, type, time and
\* detail when the step has them, the five data fields when their flag is on
\* and the step has them (a value of undefined counts as not having it).
stripData(step, dataConfig) ==
  LET keep == {"step", "category", "type", "time", "detail"}
                \cup {f \in {"loc", "dt", "scopes", "value", "logs"} : dataConfig[f]}
      has(f) == f \in DOMAIN step /\ (f = "value" => step.value # Undefined)
  IN  [f \in {g \in keep : has(g)} |-> step[f]]

filterSteps(rawSteps, config) ==
  LET filled == fillConfig(config)
      nodeLookup == buildNodeLookup(filled.nodes)
      pass1(step) == passesNodeAndTimingFilters(step, filled, nodeLookup)
      pass2(step) == passesNameFilter(step, filled.names)
      kept == SelectSeq(SelectSeq(rawSteps, pass1), pass2)
  IN  [i \in DOMAIN kept |-> stripData(kept[i], filled.data)]

\* record returning the filtered steps with the tracer's numbers.
renumberKeepsTracerStep(filtered) == filtered

\* record's renumbering: step = index + 1.
renumber(filtered) ==
  [index \in DOMAIN filtered |->
     [f \in DOMAIN filtered[index] |->
        IF f = "step" THEN index ELSE filtered[index][f]]]

(***************************************************************************)
(* record's catch block.                                                   *)
(***************************************************************************)
ParseError(message, loc) == [cls |-> "ParseError", message |-> message, loc |-> loc]
RuntimeError(message, loc) == [cls |-> "RuntimeError", message |-> message, loc |-> loc]
DefaultLoc == [line |-> 1, column |-> 0]

\* record's catch ignoring the loc of Babel's error.
recordCatchDefaultLoc(error) ==
  IF InstanceOf(error, "LimitExceededError") THEN error
  ELSE IF InstanceOf(error, "SyntaxError")
  THEN ParseError(error.message, DefaultLoc)
  ELSE IF InstanceOf(error, "Error")
  THEN RuntimeError(error.message, DefaultLoc)
  ELSE error

\* What record rejects with when trace() throws `error`.
recordCatch(error) ==
  IF InstanceOf(error, "LimitExceededError") THEN error
  ELSE IF InstanceOf(error, "SyntaxError")
  THEN ParseError(error.message, OrDefault(error, "loc", DefaultLoc))
  ELSE IF InstanceOf(error, "Error")
  THEN RuntimeError(error.message, DefaultLoc)
  ELSE error

(***************************************************************************)
(* The inputs of record.                                                   *)
(***************************************************************************)
\* A maxSteps no program of Programs reaches.
LargeK == 20

LimitsSet ==
  [maxSteps : {Null} \cup {Some(k) : k \in 0..MaxK} \cup {Some(LargeK)},
   maxTime : {Null} \cup {Some(t) : t \in 0..MaxT}]

TimingOptions == { <<>>, [before |-> FALSE], [after |-> FALSE],
                   [before |-> FALSE, after |-> FALSE] }

NamesOptions == { <<>>,
                  [include |-> <<"f">>],
                  [include |-> <<"matches nothing">>],
                  [include |-> <<>>, exclude |-> <<"log">>] }

NodesOptions == { <<>>,
                  ("calls.call" :> FALSE),
                  ("calls.call" :> FALSE) @@ ("literals.string" :> FALSE) }

DataOptions == { <<>>, [logs |-> FALSE],
                 [scopes |-> FALSE, value |-> FALSE, logs |-> TRUE,
                  dt |-> FALSE, loc |-> FALSE] }

OptionsSet ==
  { [nodes |-> nodes, filter |-> [names |-> names, timing |-> timing, data |-> data]] :
      nodes \in NodesOptions, names \in NamesOptions,
      timing \in TimingOptions, data \in DataOptions }

(***************************************************************************)
(* The executor: the running instrumented program.                         *)
(***************************************************************************)
Top == stack[Len(stack)]
AtEnd == Top.ip > Len(code[Top.fn])
Cur == code[Top.fn][Top.ip]
Running(op) == pc = "running" /\ stack # <<>> /\ ~AtEnd /\ Cur.op = op

Advance(by) == [stack EXCEPT ![Len(stack)].ip = @ + by, ![Len(stack)].k = 0]

\* The function declaration a call's callee names, or 0 when the callee is
\* no function of the program (a native: console.log, forEach).
Callee(P, call) ==
  LET c == P[P[call].kids[1]] IN
  IF c.type = "Identifier"
     /\ \E g \in DOMAIN P : P[g].type = "FunctionDeclaration" /\ P[g].name = c.name
  THEN CHOOSE g \in DOMAIN P : P[g].type = "FunctionDeclaration" /\ P[g].name = c.name
  ELSE 0

IndexText == <<"0", "1", "2", "3">>

\* The numbers of the programs as JavaScript values, and back.
Num(k) == Prim("number", IndexText[k + 1])
NumberOf(v) == (CHOOSE k \in DOMAIN IndexText : IndexText[k] = v.value) - 1
Bool(b) == Prim("boolean", IF b THEN "true" ELSE "false")

\* ToBoolean, as `!TMP` applies it.
Truthy(v) ==
  CASE v.type = "boolean" -> v.value = "true"
    [] v.type = "number" -> v.value # "0"
    [] v.type = "string" -> v.value # ""
    [] v.type \in {"undefined", "null"} -> FALSE
    [] OTHER -> TRUE

\* The declarations of a program and the scope each name is bound in.
Declarations(P) ==
  {n \in DOMAIN P : P[n].type \in {"VariableDeclaration", "FunctionDeclaration"}}

ScopeOf(P, n) == ScopeChain(P, Parent(P, n))[1]

\* scope.bindings of the scope a node owns: the names declared in it.
BindingNames(P, owner) == {P[n].name : n \in {d \in Declarations(P) : ScopeOf(P, d) = owner}}

\* The variables when the program starts: function declarations are
\* hoisted, a let binding is uninitialized (in its temporal dead zone) until
\* its declaration runs.  reads and writes count the times the program's own
\* expressions read and assigned the variable.
hoisted(P) ==
  [name \in {P[n].name : n \in Declarations(P)} |->
     IF \E n \in Declarations(P) :
          P[n].type = "FunctionDeclaration" /\ P[n].name = name
     THEN [value |-> Obj("function", "Function", name), initialized |-> TRUE,
           reads |-> 0, writes |-> 0]
     ELSE [value |-> Undefined, initialized |-> FALSE, reads |-> 0, writes |-> 0]]

\* The value of an expression of the program when it has just been
\* evaluated.  The operands of the binary expressions here are identifiers and
\* literals, which evaluating changes nothing of.
RECURSIVE Evaluate(_, _)
Evaluate(P, n) ==
  IF P[n].val # Computed THEN P[n].val
  ELSE CASE P[n].type = "Identifier" -> bindings[P[n].name].value
         [] P[n].type = "BinaryExpression" ->
              LET left == NumberOf(Evaluate(P, P[n].kids[1]))
                  right == NumberOf(Evaluate(P, P[n].kids[2]))
              IN  IF P[n].name = "<" THEN Bool(left < right) ELSE Num(left + right)
         [] OTHER -> lastValue

\* The position of `while (true) {` of the rewritten loop of node n in a
\* function's code, and of the end of its body.
LoopStart(fn, n) ==
  CHOOSE i \in DOMAIN code[fn] : code[fn][i].op = "while" /\ code[fn][i].node = n
LoopEnd(fn, n) ==
  CHOOSE i \in DOMAIN code[fn] : code[fn][i].op = "again" /\ code[fn][i].node = n

\* The console.log calls a native call makes, each with its arguments:
\* console.log(...args) is one; array.forEach(console.log) is one per
\* element, with (element, index, array).
NativeLogCalls(P, call) ==
  LET c == P[P[call].kids[1]]
      arguments == Tail(P[call].kids)
  IN  IF c.type = "MemberExpression" /\ c.name = "log"
      THEN << [i \in DOMAIN arguments |-> P[arguments[i]].val] >>
      ELSE IF c.type = "MemberExpression" /\ c.name = "forEach"
      THEN LET array == P[c.kids[1]] IN
           [j \in DOMAIN array.kids |->
              <<P[array.kids[j]].val, Prim("number", IndexText[j]), array.val>>]
      ELSE <<>>

\* An exception leaves the code that threw it: the innermost try block of
\* the program catches it, or it leaves executeInstrumented and trace and
\* reaches record's catch.
Raise(err) ==
  IF handlers # <<>>
  THEN LET h == handlers[Len(handlers)] IN
       /\ stack' = [SubSeq(stack, 1, h.depth) EXCEPT ![h.depth].ip = h.catchAt,
                                                      ![h.depth].k = 0]
       /\ handlers' = SubSeq(handlers, 1, Len(handlers) - 1)
       /\ UNCHANGED <<pc, thrown, rejection>>
  ELSE /\ stack' = <<>>
       /\ handlers' = <<>>
       /\ pc' = "rejected"
       /\ thrown' = <<err>>
       /\ rejection' = <<recordCatch(err)>>

(***************************************************************************)
(* The reporter, NS.report(value, meta).                                   *)
(***************************************************************************)
\* describe(value) throws: value.constructor.name of an object that has no
\* constructor property (describe has no try/catch).
describeThrows(value) ==
  IF value.type = "object" /\ value.cls = ""
  THEN <<Exception("TypeError",
                   Msg("Cannot read properties of undefined (reading 'name')"))>>
  ELSE <<>>

\* The guarded read of a binding in a scope snapshot,
\* (() => { try { return id; } catch {} })(): undefined when the read throws.
GuardedRead(id) ==
  IF bindings[id].initialized THEN bindings[id].value ELSE Undefined

\* A scope snapshot leaving out the bindings that cannot be read.
scopeEntriesOfReadable(P, owner) ==
  [id \in {b \in BindingNames(P, owner) : bindings[b].initialized} |->
     describe(GuardedRead(id))]

\* Object.fromEntries(scopeEntries): one entry per binding of the scope,
\* NS.describe of what the guarded read returned.
scopeEntries(P, owner) ==
  [id \in BindingNames(P, owner) |-> describe(GuardedRead(id))]

\* The meta argument of a report call when the call is made: the scopes
\* literal evaluated.  `scope` names the lexical scope a dictionary is the
\* snapshot of.
Evaluated(P, m) ==
  [m EXCEPT !.scopes = [a \in DOMAIN m.scopes |->
                          [scope |-> m.scopes[a],
                           entries |-> scopeEntries(P, m.scopes[a])]]]

\* The time check measuring from the previous report call, not from _t0.
timeLimitExceededSinceLastReport(dt) ==
  limits.maxTime # Null /\ dt - lastReport.dt > limits.maxTime[1]

timeLimitExceeded(dt) == limits.maxTime # Null /\ dt > limits.maxTime[1]

\* The step check letting the list grow two past maxSteps.
stepLimitExceededLate(length) ==
  limits.maxSteps # Null /\ length > limits.maxSteps[1] + 1

stepLimitExceeded(length) == limits.maxSteps # Null /\ length >= limits.maxSteps[1]

TimeLimitError(dt) ==
  LimitExceededError("Trace exceeded %ms time limit at %ms",
                     <<limits.maxTime[1], dt>>, "time", dt)

\* The steps error carrying _steps.length as its magnitude.
StepLimitErrorOfLength(length) ==
  LimitExceededError("Trace has % steps, exceeds max %",
                     <<length + 1, limits.maxSteps[1]>>, "steps", length)

StepLimitError(length) ==
  LimitExceededError("Trace has % steps, exceeds max %",
                     <<length + 1, limits.maxSteps[1]>>, "steps", length + 1)

\* report's checks with the step limit enforced first.
reportThrowsStepsFirst(dt, length) ==
  IF stepLimitExceeded(length) THEN <<StepLimitError(length)>>
  ELSE IF timeLimitExceeded(dt) THEN <<TimeLimitError(dt)>>
  ELSE <<>>

\* report's two checks, in their order: what it throws (<<>>: nothing, the
\* step is recorded).
reportThrows(dt, length) ==
  IF timeLimitExceeded(dt) THEN <<TimeLimitError(dt)>>
  ELSE IF stepLimitExceeded(length) THEN <<StepLimitError(length)>>
  ELSE <<>>

\* report pushing the step without handing it the log buffer.
RecordedWithoutLogs(m, dt, value) ==
  [category |-> m.category, time |-> m.time, loc |-> m.loc, type |-> m.type,
   scopes |-> m.scopes, detail |-> m.detail,
   dt |-> dt, step |-> Len(steps), value |-> describe(value), logs |-> <<>>]

\* The step report pushes: meta with dt, step, value and logs set.
Recorded(m, dt, value) ==
  [category |-> m.category, time |-> m.time, loc |-> m.loc, type |-> m.type,
   scopes |-> m.scopes, detail |-> m.detail,
   dt |-> dt, step |-> Len(steps), value |-> describe(value), logs |-> logs]

\* The step report has pushed when describe throws: meta with dt and step,
\* value and logs not set yet.
Pushed(m, dt) ==
  [category |-> m.category, time |-> m.time, loc |-> m.loc, type |-> m.type,
   scopes |-> m.scopes, detail |-> m.detail, dt |-> dt, step |-> Len(steps)]

\* The programs with loops, updates and returns are traced without a time
\* limit and with the step limits that cut them short or let them end; the
\* other sources with every limit.
LongSources == {"forLoop", "forContinue", "forNoInit", "forNoUpdate", "forNoTest",
                "whileLoop", "postfix", "prefix", "returnValue", "nullPrototype"}

LimitsFor(src) ==
  IF src \in LongSources
  THEN [maxSteps : {Null, Some(MaxK)}, maxTime : {Null}]
  ELSE LimitsSet

\* The filter options record is called with: for the long sources the
\* timing options alone.
OptionsFor(src) ==
  IF src \in LongSources
  THEN {o \in OptionsSet : o.nodes = <<>> /\ o.filter.names = <<>>
                            /\ o.filter.data = <<>>}
  ELSE OptionsSet

NoReport == [n |-> 0, dt |-> 0, length |-> 0, did |-> "none", node |-> 0, time |-> ""]

Init ==
  /\ source \in Sources
  /\ limits \in LimitsFor(source)
  /\ options = <<>>
  /\ pc = "start"
  /\ code = <<>>
  /\ stack = <<>>
  /\ handlers = <<>>
  /\ now = 0
  /\ t0 = 0
  /\ steps = <<>>
  /\ logs = <<>>
  /\ filteredSteps = <<>>
  /\ returned = <<>>
  /\ rejection = <<>>
  /\ thrown = <<>>
  /\ lastReport = NoReport
  /\ trail = <<>>
  /\ calls = <<>>
  /\ nextAct = 0
  /\ bindings = <<>>
  /\ NS = [cache |-> <<>>, return |-> Undefined]
  /\ lastValue = Undefined
  /\ lastCall = <<>>
  /\ givenSteps = <<>>
  /\ givenOptions = <<>>
  /\ output = <<>>
  /\ verdict = <<>>
  /\ givenGraph = <<>>
  /\ givenValue = <<>>
  /\ describedValue = <<>>
  /\ revivedValue = <<>>
  /\ FAKE_CONSTRUCTORS = <<>>
  /\ invocation = 1

\* trace(): transpile throws; record's catch turns the exception into the
\* rejection.
TranspileFails ==
  /\ pc = "start"
  /\ transpileThrows(source) # <<>>
  /\ LET error == transpileThrows(source)[1]
     IN  /\ pc' = "rejected"
         /\ thrown' = <<error>>
         /\ rejection' = <<recordCatch(error)>>
  /\ UNCHANGED <<source, limits, options, code, stack, handlers, now, t0, steps,
                 logs, filteredSteps, returned, lastReport, trail, calls, nextAct>>
  /\ UNCHANGED machineVars
  /\ UNCHANGED pureVars

\* trace(): transpile succeeds and executeInstrumented sets up the context
\* (_t0, _steps seeded with the init step, _logs, cache) and enters the
\* program.
ExecuteInstrumented ==
  /\ pc = "start"
  /\ transpileThrows(source) = <<>>
  /\ code' = BabelTransformCode(Programs[source])
  /\ t0' = now
  /\ steps' = << [category |-> "init", step |-> 0] >>
  /\ logs' = <<>>
  /\ NS' = [cache |-> [k \in DOMAIN Programs[source] |-> Undefined],
            return |-> Undefined]
  /\ bindings' = hoisted(Programs[source])
  /\ stack' = << [fn |-> Main, ip |-> 1, act |-> 0, k |-> 0] >>
  /\ trail' = << [node |-> 0, act |-> 0, depth |-> 0] >>
  /\ pc' = "running"
  /\ UNCHANGED <<source, limits, options, handlers, now, filteredSteps, returned,
                 rejection, thrown, lastReport, calls, nextAct, lastValue, lastCall>>
  /\ UNCHANGED pureVars

\* The variable a report call's value expression reads, if it reads one: the
\* identifier reported, or the target of a prefix update read once more.
ReadBy(P, instr) ==
  IF instr.time = "after" /\ instr.arg = -1
  THEN {P[P[instr.node].kids[1]].name}
  ELSE IF instr.time = "after" /\ instr.arg = 0
          /\ P[instr.node].type = "Identifier" /\ P[instr.node].val = Computed
  THEN {P[instr.node].name}
  ELSE {}

\* One call of NS.report(value, meta).  The arguments are evaluated first: the
\* value, then the scope snapshots of meta.  Date.now() returns the clock,
\* which may have advanced since it was last read.  report checks the limits,
\* pushes meta, describes the value (which may throw), hands over the logs
\* and returns the value.
Report ==
  /\ Running("report")
  /\ Len(steps) < MaxTrace
  /\ \E tick \in 0..1 :
       /\ now + tick <= MaxNow
       /\ now' = now + tick
       /\ LET P == Programs[source]
              n == Cur.node
              dt == (now + tick) - t0
              value == CASE Cur.time = "before" -> Undefined
                         [] Cur.arg = 0 -> Evaluate(P, n)
                         [] Cur.arg = -1 -> bindings[P[P[n].kids[1]].name].value
                         [] OTHER -> NS.cache[Cur.arg]
              m == Evaluated(P, meta(P, n, Cur.time))
              seen == [n |-> lastReport.n + 1, dt |-> dt, length |-> Len(steps),
                       did |-> "", node |-> n, time |-> Cur.time]
              threw == reportThrows(dt, Len(steps))
          IN  /\ bindings' = [id \in DOMAIN bindings |->
                                IF id \in ReadBy(P, Cur)
                                THEN [bindings[id] EXCEPT !.reads = @ + 1]
                                ELSE bindings[id]]
              /\ IF threw # <<>>
                 THEN /\ Raise(threw[1])
                      /\ lastReport' = [seen EXCEPT !.did = threw[1].kind]
                      /\ UNCHANGED <<steps, logs, trail, lastValue>>
                 ELSE IF describeThrows(value) # <<>>
                 THEN /\ steps' = Append(steps, Pushed(m, dt))
                      /\ trail' = Append(trail, [node |-> n, act |-> Top.act,
                                                 depth |-> Len(stack)])
                      /\ Raise(describeThrows(value)[1])
                      /\ lastReport' = [seen EXCEPT !.did = "threw"]
                      /\ UNCHANGED <<logs, lastValue>>
                 ELSE /\ steps' = Append(steps, Recorded(m, dt, value))
                      /\ logs' = <<>>
                      /\ trail' = Append(trail, [node |-> n, act |-> Top.act,
                                                 depth |-> Len(stack)])
                      /\ stack' = Advance(1)
                      /\ lastReport' = [seen EXCEPT !.did = "recorded"]
                      /\ lastValue' = value
                      /\ UNCHANGED <<handlers, pc, thrown, rejection>>
  /\ UNCHANGED <<source, limits, options, code, t0, filteredSteps, returned,
                 calls, nextAct, NS, lastCall>>
  /\ UNCHANGED pureVars

\* context.console.log(...arguments_), called by a native call of the program.
ConsoleLog ==
  /\ Running("call")
  /\ LET P == Programs[source]
         made == NativeLogCalls(P, Cur.node)
     IN  /\ Callee(P, Cur.node) = 0
         /\ Top.k < Len(made)
         /\ LET arguments == made[Top.k + 1] IN
            /\ logs' = Append(logs, [i \in DOMAIN arguments |-> describe(arguments[i])])
            /\ calls' = Append(calls, [at |-> Len(steps), line |-> arguments])
         /\ stack' = [stack EXCEPT ![Len(stack)].k = @ + 1]
  /\ UNCHANGED <<source, limits, options, pc, code, handlers, now, t0, steps,
                 filteredSteps, returned, rejection, thrown, lastReport, trail,
                 nextAct>>
  /\ UNCHANGED machineVars
  /\ UNCHANGED pureVars

\* The this of `callee.call(TMP, ...)` / `callee.call(undefined, ...)`.
ThisOf(instr) == IF instr.arg = 0 THEN Undefined ELSE NS.cache[instr.arg]

\* A native call returns to the instrumented code.
NativeReturn ==
  /\ Running("call")
  /\ LET P == Programs[source] IN
     /\ Callee(P, Cur.node) = 0
     /\ Top.k = Len(NativeLogCalls(P, Cur.node))
     /\ lastValue' = P[Cur.node].val
  /\ lastCall' = [node |-> Cur.node, this |-> ThisOf(Cur)]
  /\ stack' = Advance(1)
  /\ UNCHANGED <<source, limits, options, pc, code, handlers, now, t0, steps,
                 logs, filteredSteps, returned, rejection, thrown, lastReport,
                 trail, calls, nextAct, bindings, NS>>
  /\ UNCHANGED pureVars

\* callee.call(undefined, ...) of a function the program declares.
Invoke ==
  /\ Running("call")
  /\ LET g == Callee(Programs[source], Cur.node) IN
     /\ g # 0
     /\ stack' = Append(stack, [fn |-> g, ip |-> 1, act |-> nextAct + 1, k |-> 0])
  /\ nextAct' = nextAct + 1
  /\ lastCall' = [node |-> Cur.node, this |-> ThisOf(Cur)]
  /\ UNCHANGED <<source, limits, options, pc, code, handlers, now, t0, steps,
                 logs, filteredSteps, returned, rejection, thrown, lastReport,
                 trail, calls, bindings, NS, lastValue>>
  /\ UNCHANGED pureVars

\* The end of a function body: back to the call, which is done and whose
\* value is undefined.
Return ==
  /\ pc = "running"
  /\ Len(stack) > 1
  /\ AtEnd
  /\ stack' = [SubSeq(stack, 1, Len(stack) - 1) EXCEPT ![Len(stack) - 1].ip = @ + 1]
  /\ lastValue' = Undefined
  /\ UNCHANGED <<source, limits, options, pc, code, handlers, now, t0, steps,
                 logs, filteredSteps, returned, rejection, thrown, lastReport,
                 trail, calls, nextAct, bindings, NS, lastCall>>
  /\ UNCHANGED pureVars

\* return NS.return;
ReturnStatement ==
  /\ Running("return")
  /\ Len(stack) > 1
  /\ stack' = [SubSeq(stack, 1, Len(stack) - 1) EXCEPT ![Len(stack) - 1].ip = @ + 1]
  /\ lastValue' = NS.return
  /\ UNCHANGED <<source, limits, options, pc, code, handlers, now, t0, steps,
                 logs, filteredSteps, returned, rejection, thrown, lastReport,
                 trail, calls, nextAct, bindings, NS, lastCall>>
  /\ UNCHANGED pureVars

\* An assignment of the instrumented code:
\*   TMP = <expression>           (set)
\*   NS.return = <argument>       (setReturn)
\*   let x = <init>               (declare; the binding leaves its dead zone)
\*   x = x + 1  /  x = TMP + 1    (write, of an update expression)
Assignment ==
  /\ pc = "running" /\ stack # <<>> /\ ~AtEnd
  /\ Cur.op \in {"set", "setReturn", "declare", "write"}
  /\ LET P == Programs[source]
         n == Cur.node
     IN  CASE Cur.op = "set" ->
                /\ NS' = [NS EXCEPT !.cache[Cur.arg] = lastValue]
                /\ UNCHANGED <<bindings, lastValue>>
           [] Cur.op = "setReturn" ->
                /\ NS' = [NS EXCEPT !.return = IF Cur.arg = 0 THEN Undefined
                                               ELSE lastValue]
                /\ UNCHANGED <<bindings, lastValue>>
           [] Cur.op = "declare" ->
                /\ bindings' = [bindings EXCEPT
                                  ![P[n].name].value = IF Cur.arg = 0 THEN Undefined
                                                       ELSE lastValue,
                                  ![P[n].name].initialized = TRUE]
                /\ UNCHANGED <<NS, lastValue>>
           [] Cur.op = "write" ->
                LET target == P[P[n].kids[1]].name
                    old == IF Cur.arg = 0 THEN lastValue ELSE NS.cache[Cur.arg]
                    new == Num(NumberOf(old) + (IF P[n].name = "++" THEN 1 ELSE -1))
                IN  /\ bindings' = [bindings EXCEPT ![target].value = new,
                                                    ![target].writes = @ + 1]
                    /\ lastValue' = new
                    /\ UNCHANGED NS
  /\ stack' = Advance(1)
  /\ UNCHANGED <<source, limits, options, pc, code, handlers, now, t0, steps,
                 logs, filteredSteps, returned, rejection, thrown, lastReport,
                 trail, calls, nextAct, lastCall>>
  /\ UNCHANGED pureVars

\* while (true) {
WhileTrue ==
  /\ Running("while")
  /\ stack' = Advance(1)
  /\ UNCHANGED <<source, limits, options, pc, code, handlers, now, t0, steps,
                 logs, filteredSteps, returned, rejection, thrown, lastReport,
                 trail, calls, nextAct>>
  /\ UNCHANGED machineVars
  /\ UNCHANGED pureVars

\* if (!TMP) break;
BreakUnless ==
  /\ Running("unless")
  /\ stack' = IF Truthy(NS.cache[Cur.arg])
              THEN Advance(1)
              ELSE [stack EXCEPT ![Len(stack)].ip = LoopEnd(Top.fn, Cur.node) + 1]
  /\ UNCHANGED <<source, limits, options, pc, code, handlers, now, t0, steps,
                 logs, filteredSteps, returned, rejection, thrown, lastReport,
                 trail, calls, nextAct>>
  /\ UNCHANGED machineVars
  /\ UNCHANGED pureVars

\* The end of the body of while (true), or continue: on to `while (true)`;
\* break: out of the loop.
Jump ==
  /\ pc = "running" /\ stack # <<>> /\ ~AtEnd
  /\ Cur.op \in {"again", "continue", "break"}
  /\ stack' = [stack EXCEPT ![Len(stack)].ip =
                 IF Cur.op = "break" THEN LoopEnd(Top.fn, Cur.node) + 1
                 ELSE LoopStart(Top.fn, Cur.node)]
  /\ UNCHANGED <<source, limits, options, pc, code, handlers, now, t0, steps,
                 logs, filteredSteps, returned, rejection, thrown, lastReport,
                 trail, calls, nextAct>>
  /\ UNCHANGED machineVars
  /\ UNCHANGED pureVars

\* throw <argument>;
Throw ==
  /\ Running("throw")
  /\ LET P == Programs[source] IN Raise(ThrownValue(P[P[Cur.node].kids[1]].val))
  /\ UNCHANGED <<source, limits, options, code, now, t0, steps, logs,
                 filteredSteps, returned, lastReport, trail, calls, nextAct>>
  /\ UNCHANGED machineVars
  /\ UNCHANGED pureVars

\* try {
TryEnter ==
  /\ Running("try")
  /\ handlers' = Append(handlers, [depth |-> Len(stack), catchAt |-> Top.ip + Cur.arg])
  /\ stack' = Advance(1)
  /\ UNCHANGED <<source, limits, options, pc, code, now, t0, steps, logs,
                 filteredSteps, returned, rejection, thrown, lastReport, trail,
                 calls, nextAct>>
  /\ UNCHANGED machineVars
  /\ UNCHANGED pureVars

\* } of a try block that completed: skip the catch clause.
TryExit ==
  /\ Running("endtry")
  /\ handlers' = SubSeq(handlers, 1, Len(handlers) - 1)
  /\ stack' = Advance(Cur.arg)
  /\ UNCHANGED <<source, limits, options, pc, code, now, t0, steps, logs,
                 filteredSteps, returned, rejection, thrown, lastReport, trail,
                 calls, nextAct>>
  /\ UNCHANGED machineVars
  /\ UNCHANGED pureVars

\* executeInstrumented's pass over the steps after the program has run:
\* value, the entries of each scope and the arguments of each log line are
\* undescribed.
undescribeSteps(raw) ==
  [i \in DOMAIN raw |->
     [f \in DOMAIN raw[i] |->
        CASE f = "value" -> undescribe(raw[i].value)
          [] f = "scopes" ->
               [a \in DOMAIN raw[i].scopes |->
                  [scope |-> raw[i].scopes[a].scope,
                   entries |-> [id \in DOMAIN raw[i].scopes[a].entries |->
                                  undescribe(raw[i].scopes[a].entries[id])]]]
          [] f = "logs" ->
               [l \in DOMAIN raw[i].logs |->
                  [a \in DOMAIN raw[i].logs[l] |-> undescribe(raw[i].logs[l][a])]]
          [] OTHER -> raw[i][f]]]

\* The program ran to its end: executeInstrumented returns the steps, record
\* filters and renumbers them and resolves.  The options are fixed here,
\* where record first reads them.
RecordResolves ==
  /\ pc = "running"
  /\ Len(stack) = 1
  /\ AtEnd
  /\ \E o \in OptionsFor(source) :
       LET rawSteps == undescribeSteps(steps) IN
       /\ options' = o
       /\ steps' = rawSteps
       /\ filteredSteps' = filterSteps(rawSteps, o)
       /\ returned' = renumber(filterSteps(rawSteps, o))
  /\ pc' = "resolved"
  /\ stack' = <<>>
  /\ UNCHANGED <<source, limits, code, handlers, now, t0, logs, rejection,
                 thrown, lastReport, trail, calls, nextAct>>
  /\ UNCHANGED machineVars
  /\ UNCHANGED pureVars

Next ==
  \/ TranspileFails
  \/ ExecuteInstrumented
  \/ Report
  \/ ConsoleLog
  \/ NativeReturn
  \/ Invoke
  \/ Return
  \/ ReturnStatement
  \/ Assignment
  \/ WhileTrue
  \/ BreakUnless
  \/ Jump
  \/ Throw
  \/ TryEnter
  \/ TryExit
  \/ RecordResolves

Spec == Init /\ [][Next]_allVars

(***************************************************************************)
(* Properties of record.                                                   *)
(***************************************************************************)
Resolved == pc = "resolved"
Rejected == pc = "rejected"

\* The options record was called with filter something out.
FiltersRemoved == Len(returned) < Len(steps)

\* C1: the list record resolves with starts with the init step, which is the
\* only init step and has step = 1, and the step fields are 1, 2, ..., N in
\* order, whatever the filters removed.
C1_InitFirstNumberedFromOne ==
  Resolved =>
    /\ Len(returned) >= 1
    /\ \A i \in DOMAIN returned :
         /\ returned[i].step = i
         /\ returned[i].category = "init" <=> i = 1

\* A trace of several steps, some of which the filters removed from between
\* others.
C1_Witness ==
  /\ Resolved
  /\ Len(returned) > 2
  /\ FiltersRemoved
  /\ filteredSteps[Len(filteredSteps)].step = Len(steps) - 1

\* C2: no combination of timing, node and name filters removes the init step:
\* it comes through filterSteps and is in the list record resolves with.
C2_InitNeverFiltered ==
  Resolved =>
    /\ \E i \in DOMAIN filteredSteps : filteredSteps[i] = [category |-> "init", step |-> 0]
    /\ \E i \in DOMAIN returned : returned[i].category = "init"

\* Both timings off and an include list that matches nothing: every step of
\* the program is removed, the init step is all that is left.
C2_Witness ==
  /\ Resolved
  /\ Len(steps) > 1
  /\ fillConfig(options).timing = [before |-> FALSE, after |-> FALSE]
  /\ fillConfig(options).names = [mode |-> "include", names |-> {"matches nothing"}]
  /\ Len(returned) = 1

\* The program being traced, and whether node m lies strictly inside node n.
Traced == Programs[source]

RECURSIVE IsSubNode(_, _)
IsSubNode(m, n) ==
  LET up == Parent(Traced, m) IN
  up # 0 /\ (up = n \/ IsSubNode(up, n))

\* Step j is the after step matching the before step i: same node, same
\* activation of the function the node is in, no before step of the node in
\* that activation in between.
Matching(i, j) ==
  /\ i < j
  /\ steps[i].time = "before" /\ steps[j].time = "after"
  /\ trail[i].node = trail[j].node /\ trail[i].act = trail[j].act
  /\ \A k \in (i + 1)..(j - 1) :
       ~(steps[k].time = "before" /\ trail[k].node = trail[i].node
                                 /\ trail[k].act = trail[i].act)

ProgramSteps == 2..Len(steps)

\* Every after step of a statement has its before step earlier in the list.
BeforePrecedesAfter ==
  \A j \in ProgramSteps :
    (steps[j].time = "after" /\ steps[j].category = "statement")
      => \E i \in ProgramSteps : Matching(i, j)

\* C3, as stated: before precedes after, and every step between a before
\* step of N and its matching after step is of a syntactic sub-node of N, in
\* every program.
C3_OnlySubNodesBetween ==
  steps # <<>> =>
    /\ BeforePrecedesAfter
    /\ \A i, j \in ProgramSteps :
         Matching(i, j) =>
           \A k \in (i + 1)..(j - 1) : IsSubNode(trail[k].node, trail[i].node)

\* C3: before precedes after, and every step between a before step of N and
\* its matching after step is either of a syntactic sub-node of N, recorded in
\* the activation N runs in, or recorded deeper in the call stack, in the body
\* of a function called while N runs.
C3_WellNested ==
  steps # <<>> =>
    /\ BeforePrecedesAfter
    /\ \A i, j \in ProgramSteps :
         Matching(i, j) =>
           \A k \in (i + 1)..(j - 1) :
             \/ /\ trail[k].act = trail[i].act
                /\ IsSubNode(trail[k].node, trail[i].node)
             \/ /\ trail[k].depth > trail[i].depth
                /\ trail[k].act # trail[i].act
                /\ ~IsSubNode(trail[k].node, trail[i].node)

\* f(); has run: between its before and after steps lie steps of its
\* sub-nodes and steps of the body of f, which is declared outside it.
C3_Witness ==
  /\ Resolved
  /\ \E i, j \in ProgramSteps :
       /\ Matching(i, j)
       /\ \E k \in (i + 1)..(j - 1) : trail[k].depth > trail[i].depth
       /\ \E k \in (i + 1)..(j - 1) : IsSubNode(trail[k].node, trail[i].node)

\* A console.log call as the trace shows it, while the program runs
\* (described) and once the steps are returned (undescribed).
Described(line) == [a \in DOMAIN line |-> describe(line[a])]
Shown(line) == [a \in DOMAIN line |-> undescribe(describe(line[a]))]

\* The console.log calls made while _steps held `length` steps: after raw
\* step length - 1 was recorded and before raw step length.
CallsWhile(length) == SelectSeq(calls, LAMBDA c : c.at = length)
LinesWhile(length) ==
  [l \in DOMAIN CallsWhile(length) |->
     IF Resolved THEN Shown(CallsWhile(length)[l].line)
     ELSE Described(CallsWhile(length)[l].line)]

\* The console.log calls made after raw step `from` and up to raw step `to`
\* (raw steps by the tracer's numbers, init being 0).
CallsBetween(from, to) == SelectSeq(calls, LAMBDA c : from < c.at /\ c.at <= to)
LinesBetween(from, to) ==
  [l \in DOMAIN CallsBetween(from, to) |-> Shown(CallsBetween(from, to)[l].line)]

C5_AtMostKPlusOneSteps ==
  (Resolved /\ limits.maxSteps # Null) => Len(returned) <= limits.maxSteps[1] + 1

\* A program whose trace fills the limit exactly and is returned whole.
C5_Witness ==
  /\ Resolved
  /\ limits.maxSteps # Null
  /\ Len(steps) = limits.maxSteps[1]
  /\ Len(steps) > 1
  /\ Len(returned) = Len(steps)

\* What record has rejected with is a LimitExceededError of the kind.
RejectedWithLimit(kind) ==
  /\ Rejected
  /\ rejection[1].cls = "LimitExceededError"
  /\ rejection[1].kind = kind

\* A step of the specification is a call of report.
ReportCalled == lastReport'.n # lastReport.n

\* The program catches what the code in its try block throws.
InTryBlock == handlers # <<>>

\* C6, as stated: a report call at the step limit records nothing, the
\* steps error record rejects with has _steps.length as its magnitude, and
\* with maxSteps null there is no steps error.
C6_MagnitudeIsLength ==
  /\ lastReport.did = "steps" => Len(steps) = lastReport.length
  /\ RejectedWithLimit("steps") =>
       rejection[1].magnitude = Len(steps) /\ returned = <<>>
  /\ limits.maxSteps = Null =>
       lastReport.did # "steps" /\ ~RejectedWithLimit("steps")

\* C6: a report call made while maxSteps is not null and _steps.length >=
\* maxSteps, the time check of the call not raising, records nothing and
\* throws a LimitExceededError of kind steps whose magnitude is
\* _steps.length + 1; when the error leaves the program record rejects with it
\* unchanged and returns no steps.  With maxSteps null there is no steps
\* error.
C6_StepLimitRaised ==
  /\ [][ (/\ ReportCalled
          /\ limits.maxSteps # Null
          /\ Len(steps) >= limits.maxSteps[1]
          /\ ~(limits.maxTime # Null /\ now' - t0 > limits.maxTime[1]))
        => /\ steps' = steps
           /\ lastReport'.did = "steps"
           /\ pc' = "rejected" <=> ~InTryBlock
           /\ pc' = "rejected" =>
                /\ rejection' =
                     << [cls |-> "LimitExceededError",
                         message |-> <<"Trace has % steps, exceeds max %",
                                       <<Len(steps) + 1, limits.maxSteps[1]>> >>,
                         kind |-> "steps",
                         magnitude |-> Len(steps) + 1] >>
                /\ returned' = <<>> ]_vars
  /\ [](limits.maxSteps = Null =>
          lastReport.did # "steps" /\ ~RejectedWithLimit("steps"))

\* record has rejected with a steps error raised after several steps were
\* recorded.
C6_Witness ==
  /\ RejectedWithLimit("steps")
  /\ lastReport.did = "steps"
  /\ Len(steps) > 2
  /\ Len(steps) = limits.maxSteps[1]
  /\ rejection[1].magnitude = Len(steps) + 1

\* C7: every report call checks the time limit before the step limit: with
\* maxTime not null and dt > maxTime it records nothing and throws a
\* LimitExceededError of kind time carrying dt, also at the step limit, and
\* when the error leaves the program record rejects with it; with dt <=
\* maxTime or maxTime null the call raises no time error.
C7_TimeLimitFirst ==
  [][ ReportCalled =>
        IF limits.maxTime # Null /\ now' - t0 > limits.maxTime[1]
        THEN /\ steps' = steps
             /\ lastReport'.did = "time"
             /\ pc' = "rejected" <=> ~InTryBlock
             /\ pc' = "rejected" =>
                  /\ rejection' =
                       << [cls |-> "LimitExceededError",
                           message |-> <<"Trace exceeded %ms time limit at %ms",
                                         <<limits.maxTime[1], now' - t0>> >>,
                           kind |-> "time",
                           magnitude |-> now' - t0] >>
                  /\ returned' = <<>>
        ELSE /\ lastReport'.did # "time"
             /\ pc' = "rejected" => ~RejectedWithLimit("time")' ]_vars

\* record has rejected with a time error raised by a report call that was
\* at the step limit too.
C7_Witness ==
  /\ RejectedWithLimit("time")
  /\ lastReport.did = "time"
  /\ limits.maxSteps # Null
  /\ lastReport.length >= limits.maxSteps[1]

\* C8: whatever fails in transform or execution and is neither a parser
\* failure nor a limit error, an Error of any class or a thrown value that is
\* no Error, record rejects with a RuntimeError of the same message and loc
\* {line: 1, column: 0}.
C8_OtherFailuresAreRuntimeErrors ==
  (Rejected /\ source \notin ParserFailures
            /\ thrown[1].cls # "LimitExceededError")
    => rejection[1] = RuntimeError(thrown[1].message, DefaultLoc)

\* C9: a parse failure is rejected as a ParseError with the parser's message
\* and loc, or loc {line: 1, column: 0} when the parser gave none, and no
\* steps are returned.
C9_ParseErrorKeepsMessageAndLoc ==
  /\ source \in ParserFailures => ~Resolved
  /\ (Rejected /\ source = "const = 1;") =>
       /\ rejection = << [cls |-> "ParseError",
                          message |-> Msg("Unexpected token (1:6)"),
                          loc |-> [line |-> 1, column |-> 6]] >>
       /\ returned = <<>>
  /\ (Rejected /\ source = "syntax error without loc") =>
       /\ rejection = << [cls |-> "ParseError",
                          message |-> Msg("syntax error"),
                          loc |-> [line |-> 1, column |-> 0]] >>
       /\ returned = <<>>

\* The parser has failed with an error that carries a loc.
C9_Witness ==
  /\ Rejected
  /\ source \in ParserFailures
  /\ "loc" \in DOMAIN thrown[1]
  /\ rejection[1].loc = thrown[1].loc
  /\ rejection[1].loc # DefaultLoc

\* C10: for the empty source, for which the transformer returns no code,
\* record does not run the program or resolve: it rejects with a RuntimeError.
C10_EmptySourceRejected ==
  source = "empty" =>
    /\ pc \in {"start", "rejected"}
    /\ Rejected =>
         /\ rejection = << [cls |-> "RuntimeError",
                            message |-> Msg("Babel transform failed to produce code"),
                            loc |-> [line |-> 1, column |-> 0]] >>
         /\ returned = <<>>

\* record has rejected the empty source.
C10_Witness ==
  /\ Rejected
  /\ source = "empty"
  /\ NoCode(Traced)
  /\ rejection[1].cls = "RuntimeError"

(***************************************************************************)
(* filterSteps and verifyOptions called on their own, as the API layer and *)
(* the unit tests call them, on raw steps that need not come from a trace. *)
(***************************************************************************)
MaxGivenSteps == 2

\* Raw steps as the RawStep type allows them (the step number is set by
\* position): with and without detail, value and logs, with one candidate
\* name, two, a null-valued one, none, and of a type the table lacks.
StepShapes == {
  [category |-> "statement", type |-> "VariableDeclaration", time |-> "before",
   loc |-> 1, scopes |-> <<>>, dt |-> 0,
   detail |-> [action |-> "declare", kind |-> "let", target |-> JStr("x")]],
  [category |-> "expression", type |-> "Identifier", time |-> "after",
   loc |-> 2, scopes |-> <<>>, dt |-> 1, value |-> Prim("number", "1"),
   logs |-> <<>>, detail |-> [action |-> "read", name |-> JStr("y")]],
  [category |-> "expression", type |-> "CallExpression", time |-> "after",
   loc |-> 3, dt |-> 1, value |-> Undefined,
   logs |-> << <<Prim("string", "a")>> >>,
   detail |-> [action |-> "call", arity |-> 1, callee |-> JStr("log"),
               method |-> TRUE]],
  [category |-> "expression", type |-> "MemberExpression", time |-> "after",
   loc |-> 4, scopes |-> <<>>, dt |-> 0, value |-> Prim("number", "1"),
   logs |-> <<>>,
   detail |-> [action |-> "access", computed |-> TRUE, property |-> JNull]],
  [category |-> "statement", type |-> "ThrowStatement", time |-> "before",
   loc |-> 5, scopes |-> <<>>, dt |-> 2, logs |-> <<>>,
   detail |-> [action |-> "unknown"]],
  [category |-> "expression", type |-> "AssignmentExpression", time |-> "before",
   dt |-> 0, detail |-> [action |-> "assign", name |-> JStr("y"),
                         target |-> JStr("x")]],
  [category |-> "expression", type |-> "StringLiteral", time |-> "after",
   loc |-> 6, value |-> Prim("string", "a"), dt |-> 1] }

\* A raw step of the shape with the tracer's number.
Numbered(shape, number) ==
  [f \in DOMAIN shape \cup {"step"} |-> IF f = "step" THEN number ELSE shape[f]]

\* The raw lists: the init step, then up to MaxGivenSteps steps of different
\* shapes.
GivenStepLists ==
  UNION { { <<[category |-> "init", step |-> 0]>>
              \o [i \in 1..n |-> Numbered(shapes[i], i)] :
            shapes \in { q \in [1..n -> StepShapes] :
                           \A i, j \in 1..n : i # j => q[i] # q[j] } } :
          n \in 0..MaxGivenSteps }

GivenNames == NamesOptions \cup
  { [include |-> <<"x">>, exclude |-> <<"y">>],
    [include |-> <<"x", "log">>] }

\* What verifyOptions and filterSteps are given: options objects, one with
\* filter null, and for verifyOptions null and a string.
GivenObjects ==
  { [nodes |-> nodes, filter |-> [names |-> names, timing |-> timing, data |-> <<>>]] :
      nodes \in NodesOptions, names \in GivenNames, timing \in TimingOptions }
    \cup { [nodes |-> <<>>, filter |-> [names |-> names, timing |-> <<>>, data |-> data]] :
             names \in GivenNames, data \in DataOptions }
    \cup { <<>>, [filter |-> JNull], [filter |-> [timing |-> [before |-> FALSE]]] }
NotObjects == { JNull, JStr("not an object") }
GivenOptions == GivenObjects \cup NotObjects

\* typeof v === 'object' && v !== null, for the values options hold.
IsObject(v) == "t" \notin DOMAIN v

\* o[key], undefined when o lacks it.
JUndefined == [t |-> "undefined"]
Get(o, key) == IF key \in DOMAIN o THEN o[key] ELSE JUndefined

\* Array.isArray(o[key]) && o[key].length > 0, o[key] being a list when o
\* has it.
NonEmptyArray(o, key) == key \in DOMAIN o /\ Len(o[key]) > 0

\* verifyOptions of the js-klve options: "threw" for the
\* OptionsSemanticInvalidError, "returned" otherwise.
verifyOptions(opts) ==
  IF ~IsObject(opts) THEN "returned"
  ELSE LET filter == Get(opts, "filter") IN
       IF ~IsObject(filter) THEN "returned"
       ELSE LET names == Get(filter, "names") IN
            IF ~IsObject(names) THEN "returned"
            ELSE IF NonEmptyArray(names, "include")
                    /\ NonEmptyArray(names, "exclude")
            THEN "threw"
            ELSE "returned"

\* verifyOptions of verify-options/index.ts, which the package entry imports:
\* its body is empty.
verifyOptionsIndex(opts) == "returned"

\* record is not called.
RecordIdle ==
  /\ source = "none" /\ limits = [maxSteps |-> Null, maxTime |-> Null]
  /\ options = <<>> /\ pc = "idle" /\ code = <<>> /\ stack = <<>>
  /\ handlers = <<>> /\ now = 0 /\ t0 = 0 /\ steps = <<>> /\ logs = <<>>
  /\ filteredSteps = <<>> /\ returned = <<>> /\ rejection = <<>>
  /\ thrown = <<>> /\ lastReport = NoReport /\ trail = <<>> /\ calls = <<>>
  /\ nextAct = 0 /\ bindings = <<>> /\ NS = [cache |-> <<>>, return |-> Undefined]
  /\ lastValue = Undefined /\ lastCall = <<>>

\* describe and undescribe are not called.
DescribeIdle ==
  /\ givenGraph = <<>> /\ givenValue = <<>> /\ describedValue = <<>>
  /\ revivedValue = <<>> /\ FAKE_CONSTRUCTORS = <<>> /\ invocation = 1

FilterInit ==
  /\ givenSteps \in GivenStepLists
  /\ givenOptions \in GivenOptions
  /\ output = <<>>
  /\ verdict = <<>>
  /\ RecordIdle
  /\ DescribeIdle

\* The API layer validates the options: both verifyOptions functions.
CallVerifyOptions ==
  /\ verdict = <<>>
  /\ output = <<>>
  /\ verdict' = <<verifyOptions(givenOptions), verifyOptionsIndex(givenOptions)>>
  /\ UNCHANGED <<vars, givenSteps, givenOptions, output, describeVars>>

\* filterSteps(steps, config).
CallFilterSteps ==
  /\ output = <<>>
  /\ verdict = <<>>
  /\ givenOptions \in GivenObjects
  /\ output' = <<filterSteps(givenSteps, givenOptions)>>
  /\ UNCHANGED <<vars, givenSteps, givenOptions, verdict, describeVars>>

FilterNext == CallVerifyOptions \/ CallFilterSteps

FilterSpec == FilterInit /\ [][FilterNext]_allVars

(***************************************************************************)
(* Properties of filterSteps, stated from the options as given (not from   *)
(* the filled config).                                                     *)
(***************************************************************************)
Filtered == output # <<>>

\* The parts of an options object, <<>> where it has none.
NamesOf(o) ==
  IF "filter" \in DOMAIN o /\ IsObject(o.filter) /\ "names" \in DOMAIN o.filter
  THEN o.filter.names ELSE <<>>
TimingOf(o) ==
  IF "filter" \in DOMAIN o /\ IsObject(o.filter) /\ "timing" \in DOMAIN o.filter
  THEN o.filter.timing ELSE <<>>
DataOf(o) ==
  IF "filter" \in DOMAIN o /\ IsObject(o.filter) /\ "data" \in DOMAIN o.filter
  THEN o.filter.data ELSE <<>>
NodesOf(o) == IF "nodes" \in DOMAIN o THEN o.nodes ELSE <<>>

\* A flag or toggle that is true unless given as false.
Flag(flags, key) == IF key \in DOMAIN flags THEN flags[key] ELSE TRUE

ListOf(names, key) ==
  IF key \in DOMAIN names THEN {names[key][i] : i \in DOMAIN names[key]} ELSE {}

NameMode(o) ==
  IF ListOf(NamesOf(o), "include") # {} THEN "include"
  ELSE IF ListOf(NamesOf(o), "exclude") # {} THEN "exclude"
  ELSE "none"

\* The string-valued name, target, callee and property of a step's detail.
Candidates(step) ==
  IF "detail" \notin DOMAIN step THEN {}
  ELSE { step.detail[f].v :
           f \in { g \in {"name", "target", "callee", "property"} \cap DOMAIN step.detail :
                     step.detail[g].t = "string" } }

NameKeeps(step, o) ==
  CASE NameMode(o) = "none" -> TRUE
    [] NameMode(o) = "include" ->
         Candidates(step) = {}
           \/ Candidates(step) \cap ListOf(NamesOf(o), "include") # {}
    [] NameMode(o) = "exclude" ->
         Candidates(step) \cap ListOf(NamesOf(o), "exclude") = {}

\* The phase of the step is enabled and no toggle that the table maps to the
\* step's type is false.
TimingAndNodesKeep(step, o) ==
  /\ Flag(TimingOf(o), step.time)
  /\ \A path \in DOMAIN CONFIG_TO_AST :
       CONFIG_TO_AST[path] = step.type => Flag(NodesOf(o), path)

InOutput(step) == \E j \in DOMAIN output[1] : output[1][j].step = step.step

GivenAfterInit == {givenSteps[i] : i \in 2..Len(givenSteps)}

\* C11: the name filter's mode is include when the include list is not
\* empty, else exclude when the exclude list is not empty, else none; a step
\* that is not init and passes the other filters is kept in include mode iff
\* it has no string-valued name, target, callee or property or one of them is
\* listed, in exclude mode iff none of them is listed, and always in mode
\* none.
C11_NameFilter ==
  Filtered =>
    \A step \in GivenAfterInit :
      TimingAndNodesKeep(step, givenOptions)
        => (InOutput(step) <=> NameKeeps(step, givenOptions))

\* Include and exclude both given: include decides.  A step with two
\* candidate names of which one is listed is kept, a step whose only name
\* field is null is kept, and a step with an unlisted name is dropped.
C11_Witness ==
  /\ Filtered
  /\ ListOf(NamesOf(givenOptions), "include") # {}
  /\ ListOf(NamesOf(givenOptions), "exclude") # {}
  /\ \E step \in GivenAfterInit :
       /\ InOutput(step)
       /\ Cardinality(Candidates(step)) = 2
       /\ ~(Candidates(step) \subseteq ListOf(NamesOf(givenOptions), "include"))
  /\ \E step \in GivenAfterInit :
       ~InOutput(step) /\ Candidates(step) # {}
         /\ TimingAndNodesKeep(step, givenOptions)

\* C12: a step that is not init and passes the name filter is kept iff its
\* phase is enabled in filter.timing and no toggle the table maps to its type
\* is false; missing flags and toggles count as true, a type the table lacks
\* is kept whatever the toggles, and a toggle acts on its own type only.
C12_TimingAndNodeFilters ==
  Filtered =>
    \A step \in GivenAfterInit :
      NameKeeps(step, givenOptions)
        => (InOutput(step) <=> TimingAndNodesKeep(step, givenOptions))

\* With toggles off, a step of a type the table lacks is kept, a step of a
\* toggled type is dropped and a step of another type is kept.
C12_Witness ==
  /\ Filtered
  /\ ~Flag(NodesOf(givenOptions), "calls.call")
  /\ Flag(TimingOf(givenOptions), "before")
  /\ ~Flag(TimingOf(givenOptions), "after")
  /\ \E step \in GivenAfterInit : InOutput(step) /\ step.type \notin ALL_AST_TYPES
  /\ \E step \in GivenAfterInit : ~InOutput(step) /\ step.time = "after"

\* The raw step has the field (a value of undefined is no value).
RawHas(raw, f) == f \in DOMAIN raw /\ (f = "value" => raw.value # Undefined)

\* The options without their filter.data.
WithoutData(o) ==
  [nodes |-> NodesOf(o),
   filter |-> [names |-> NamesOf(o), timing |-> TimingOf(o), data |-> <<>>]]

StepNumbers(list) == [j \in DOMAIN list |-> list[j].step]

\* C13: in every output step each of scopes, value, logs, dt, loc is there
\* iff its filter.data flag is not false and the raw step has it, and is then
\* the raw step's; step, category, type, time and detail are the raw step's
\* whatever the flags; and the flags change neither the steps kept nor their
\* order.
C13_DataStrip ==
  Filtered =>
    /\ \A j \in DOMAIN output[1] :
         LET out == output[1][j]
             raw == givenSteps[out.step + 1]
         IN  /\ \A f \in {"scopes", "value", "logs", "dt", "loc"} :
                  /\ f \in DOMAIN out <=>
                       (Flag(DataOf(givenOptions), f) /\ RawHas(raw, f))
                  /\ f \in DOMAIN out => out[f] = raw[f]
             /\ \A f \in {"step", "category", "type", "time", "detail"} :
                  /\ f \in DOMAIN out <=> f \in DOMAIN raw
                  /\ f \in DOMAIN out => out[f] = raw[f]
    /\ StepNumbers(output[1])
         = StepNumbers(filterSteps(givenSteps, WithoutData(givenOptions)))

\* Some flags are off, and a kept step has lost fields it had.
C13_Witness ==
  /\ Filtered
  /\ ~Flag(DataOf(givenOptions), "dt")
  /\ Flag(DataOf(givenOptions), "logs")
  /\ \E j \in DOMAIN output[1] :
       /\ "logs" \in DOMAIN output[1][j]
       /\ "dt" \notin DOMAIN output[1][j]
       /\ "detail" \in DOMAIN output[1][j]
  /\ Len(output[1]) < Len(givenSteps)

(***************************************************************************)
(* The name filter over the steps of one traced program.                   *)
(***************************************************************************)
\* Every name occurring in the trace.
TraceNames == UNION {Candidates(steps[i]) : i \in ProgramSteps}

SetToSeq(S) == CHOOSE q \in [1..Cardinality(S) -> S] : {q[i] : i \in DOMAIN q} = S

IncludeOnly(X) == [filter |-> [names |-> [include |-> <<X>>]]]
ExcludeAllBut(X) ==
  [filter |-> [names |-> [exclude |-> SetToSeq(TraceNames \ {X})]]]

\* C14: over the steps of one traced program, the name filter include = [X]
\* and the name filter exclude = [every name of the trace but X] keep the same
\* steps, for X a name of the trace or not.
C14_IncludeIsExcludeOfTheRest ==
  Resolved =>
    \A X \in TraceNames \cup {"matches nothing"} :
      filterSteps(steps, IncludeOnly(X)) = filterSteps(steps, ExcludeAllBut(X))

\* A trace with several names and with nameless steps, of which include = [X]
\* keeps a step named X and drops a step named otherwise.
C14_Witness ==
  /\ Resolved
  /\ Cardinality(TraceNames) >= 2
  /\ \E i \in ProgramSteps : Candidates(steps[i]) = {}
  /\ \E X \in TraceNames :
       LET kept == filterSteps(steps, IncludeOnly(X)) IN
       /\ \E j \in DOMAIN kept : kept[j].category # "init" /\ Candidates(kept[j]) = {X}
       /\ \E j \in DOMAIN kept : kept[j].category # "init" /\ Candidates(kept[j]) = {}
       /\ Len(kept) < Len(steps)

(***************************************************************************)
(* Restrictions added to the options filterSteps was called with.          *)
(***************************************************************************)
Opt(nodes, names, timing, data) ==
  [nodes |-> nodes, filter |-> [names |-> names, timing |-> timing, data |-> data]]

\* The flags with one of them switched off.
Off(flags, key) ==
  [k \in DOMAIN flags \cup {key} |-> IF k = key THEN FALSE ELSE flags[k]]

\* The name config with one of its lists replaced.
WithList(names, key, list) ==
  [k \in DOMAIN names \cup {key} |-> IF k = key THEN list ELSE names[k]]

SeqOf(names, key) == IF key \in DOMAIN names THEN names[key] ELSE <<>>

RemoveAt(seq, i) == SubSeq(seq, 1, i - 1) \o SubSeq(seq, i + 1, Len(seq))

WithTiming(o, timing) == Opt(NodesOf(o), NamesOf(o), timing, DataOf(o))
WithNodes(o, nodes) == Opt(nodes, NamesOf(o), TimingOf(o), DataOf(o))
WithNames(o, names) == Opt(NodesOf(o), names, TimingOf(o), DataOf(o))

\* The names of the given steps, and one that none of them has.
NameUniverse == UNION {Candidates(shape) : shape \in StepShapes} \cup {"matches nothing"}

\* The toggles of the types the given steps have.
RestrictablePaths ==
  {path \in DOMAIN CONFIG_TO_AST : \E shape \in StepShapes : shape.type = CONFIG_TO_AST[path]}

\* The restricted options give no more steps than the given ones gave.
NoMore(restricted) == Len(filterSteps(givenSteps, restricted)) <= Len(output[1])

TimingMonotone ==
  \A phase \in {"before", "after"} :
    NoMore(WithTiming(givenOptions, Off(TimingOf(givenOptions), phase)))

NodesMonotone ==
  \A path \in RestrictablePaths :
    NoMore(WithNodes(givenOptions, Off(NodesOf(givenOptions), path)))

ExcludeMonotone ==
  \A n \in NameUniverse :
    LET names == NamesOf(givenOptions) IN
    NoMore(WithNames(givenOptions,
                     WithList(names, "exclude", Append(SeqOf(names, "exclude"), n))))

NewIncludeMonotone ==
  NameMode(givenOptions) = "none" =>
    \A n \in NameUniverse :
      NoMore(WithNames(givenOptions, WithList(NamesOf(givenOptions), "include", <<n>>)))

\* Taking one name off the include list, as long as shortest names are left.
NarrowMonotone(shortest) ==
  LET names == NamesOf(givenOptions)
      include == SeqOf(names, "include")
  IN  \A i \in DOMAIN include :
        Len(include) - 1 >= shortest =>
          NoMore(WithNames(givenOptions, WithList(names, "include", RemoveAt(include, i))))

\* C15 as stated: disabling a phase, disabling a toggle, adding a name to the
\* exclude list, narrowing the include list or going from no name filter to
\* one never increases the number of output steps.
C15_Monotone ==
  Filtered =>
    /\ TimingMonotone
    /\ NodesMonotone
    /\ ExcludeMonotone
    /\ NewIncludeMonotone
    /\ NarrowMonotone(0)

\* C15, amended: the same, with the include list narrowed to a list that is
\* still not empty.
C15_MonotoneWhileIncludeStays ==
  Filtered =>
    /\ TimingMonotone
    /\ NodesMonotone
    /\ ExcludeMonotone
    /\ NewIncludeMonotone
    /\ NarrowMonotone(1)

\* An include list of two names whose narrowing to one name drops a step that
\* was kept, in options where disabling a phase drops one too.
C15_Witness ==
  /\ Filtered
  /\ LET names == NamesOf(givenOptions)
         include == SeqOf(names, "include")
     IN  /\ Len(include) = 2
         /\ \E i \in DOMAIN include :
              Len(filterSteps(givenSteps,
                              WithNames(givenOptions,
                                        WithList(names, "include", RemoveAt(include, i)))))
                < Len(output[1])
  /\ \E phase \in {"before", "after"} :
       Len(filterSteps(givenSteps,
                       WithTiming(givenOptions, Off(TimingOf(givenOptions), phase))))
         < Len(output[1])

(***************************************************************************)
(* verifyOptions.                                                          *)
(***************************************************************************)
Verified == verdict # <<>>

\* Both filter.names.include and filter.names.exclude are non-empty lists.
BothListsGiven ==
  /\ ListOf(NamesOf(givenOptions), "include") # {}
  /\ ListOf(NamesOf(givenOptions), "exclude") # {}

\* C16: the verifyOptions of src/verify-options/index.ts, the one the package
\* entry imports, throws iff both filter.names.include and
\* filter.names.exclude are non-empty lists, and returns for every other
\* input.
C16_ThrowsIffBothListsGiven ==
  Verified => (verdict[2] = "threw" <=> BothListsGiven)

\* The verifyOptions of the file whose name is lost does so.
C16_LostFileThrowsIffBothListsGiven ==
  Verified => (verdict[1] = "threw" <=> BothListsGiven)

\* verifyOptions was called with both lists non-empty.
C16_BothListsVerified == Verified /\ BothListsGiven

(***************************************************************************)
(* The type and time of the steps record resolves with.                    *)
(***************************************************************************)
OutputSteps == 2..Len(returned)

MaxObjects == 2        \* objects of a graph
MaxInvocations == 2    \* record invocations in a row

Ref(i) == [type |-> "ref", id |-> i]

\* A symbol: its identity and its description (Null: Symbol() has none), a
\* string given by its characters.
Sym(id, description) == [type |-> "symbol", id |-> id, description |-> description]

Symbols == { Sym("s1", Null), Sym("s2", Some(<<>>)), Sym("s3", Some(<<"a">>)),
             Sym("s4", Some(<<"a", "\n", "b">>)) }

Primitives ==
  { Prim("string", "s"), Prim("number", "3"), Prim("boolean", "true"),
    Prim("null", "null"), Undefined } \cup Symbols

Kinds == {"function", "promise", "array", "plain", "instance"}

ConstructorName ==
  [function |-> "Function", promise |-> "Promise", array |-> "Array",
   plain |-> "Object", instance |-> "Point"]

\* The primitive-valued property of object i, when it has one.
EntryPrimitives == << Sym("s3", Some(<<"a">>)), Prim("number", "3"), Prim("string", "s") >>
PrimitiveOf(i) == EntryPrimitives[((i - 1) % Len(EntryPrimitives)) + 1]

\* The numbers of a set in increasing order.
RECURSIVE Ascending(_)
Ascending(S) ==
  IF S = {} THEN <<>>
  ELSE LET least == CHOOSE x \in S : \A y \in S : x <= y
       IN  <<least>> \o Ascending(S \ {least})

\* Object i of the given kind whose properties hold the objects of `links`
\* (0: a primitive; -1: the next object, once more), under the keys "0",
\* "1", ...  An array of an object with an even number ends with a hole.
Object(i, kind, links) ==
  LET targets == Ascending(links)
      entries == [k \in DOMAIN targets |->
                    <<IndexText[k],
                      CASE targets[k] = 0 -> PrimitiveOf(i)
                        [] targets[k] = -1 -> Ref(i + 1)
                        [] OTHER -> Ref(targets[k])>>]
  IN  [kind |-> kind, cname |-> ConstructorName[kind],
       length |-> Len(entries) + ((i - 1) % 2), entries |-> entries]

\* The kinds object i takes: every kind for the first, an array for the
\* second, class instances after that.
KindsOf(i) == IF i = 1 THEN Kinds ELSE IF i = 2 THEN {"array"} ELSE {"instance"}

\* What object i of n may hold: a primitive, the first object, itself, and
\* the next object, which it does hold (the first may hold it twice).
LinksOf(i, n) ==
  { (IF i < n THEN {i + 1} ELSE {}) \cup more :
      more \in SUBSET ({0, 1, i} \cup (IF i = 1 /\ n > 1 THEN {-1} ELSE {})) }

ObjectsOf(i, n) ==
  { Object(i, kind, links) : kind \in KindsOf(i), links \in LinksOf(i, n) }

\* The graphs of n objects, from object i on.
RECURSIVE GraphsFrom(_, _)
GraphsFrom(i, n) ==
  IF i > n THEN {<<>>}
  ELSE { <<o>> \o rest : o \in ObjectsOf(i, n), rest \in GraphsFrom(i + 1, n) }

\* The graphs of up to MaxObjects objects, each reached from the first.
GivenGraphs == UNION { GraphsFrom(1, n) : n \in 1..MaxObjects }

\* The values describe is called with: the first object of a graph, or a
\* primitive.
GivenValues ==
  { <<W, Ref(1)>> : W \in GivenGraphs } \cup { <<<<>>, p>> : p \in Primitives }

\* value.toString() of a symbol: "Symbol(" \o body \o ")".
toString(symbol) ==
  [body |-> IF symbol.description = Null THEN <<>> ELSE symbol.description[1]]

\* compound counting heap indices from 1.
compoundFromOne(at) == [category |-> "compound", at |-> at + 1]

compound(at) == [category |-> "compound", at |-> at]

\* The placeholder describe pushes and the tag it then gets.
HeapObject(o) ==
  CASE o.kind = "function" -> [type |-> "function", entries |-> <<>>]
    [] o.kind = "promise" -> [type |-> "promise", entries |-> <<>>]
    [] o.kind = "array" -> [type |-> "array", length |-> o.length, entries |-> <<>>]
    [] OTHER -> [type |-> "object", cname |-> o.cname, entries |-> <<>>]

\* map.set(value, at)
MapSet(map, key, at) ==
  [k \in DOMAIN map \cup {key} |-> IF k = key THEN at ELSE map[k]]

RECURSIVE describeInto(_, _, _, _), describeEntries(_, _, _, _, _, _)

\* describe(value, heap, map) over the objects W.  heap indices are counted
\* from 0 as in the code; `calls` counts the invocations of describe.
describeInto(W, value, heap, map) ==
  IF value.type = "symbol"
  THEN [node |-> [category |-> "primitive", type |-> "symbol", str |-> toString(value)],
        heap |-> heap, map |-> map, calls |-> 1]
  ELSE IF value.type # "ref"
  THEN [node |-> [category |-> "primitive", type |-> value.type, value |-> value.value],
        heap |-> heap, map |-> map, calls |-> 1]
  ELSE IF value.id \in DOMAIN map
  THEN [node |-> compound(map[value.id]), heap |-> heap, map |-> map, calls |-> 1]
  ELSE LET at == Len(heap)
           entered == describeEntries(W, W[value.id].entries, 1, at,
                                      Append(heap, HeapObject(W[value.id])),
                                      MapSet(map, value.id, at))
       IN  [node |-> compound(at), heap |-> entered.heap, map |-> entered.map,
            calls |-> 1 + entered.calls]

\* The loop over Object.entries(value), from entry i on.
describeEntries(W, entries, i, at, heap, map) ==
  IF i > Len(entries) THEN [heap |-> heap, map |-> map, calls |-> 0]
  ELSE LET one == describeInto(W, entries[i][2], heap, map)
           pushed == [one.heap EXCEPT ![at + 1].entries = Append(@, <<entries[i][1], one.node>>)]
           rest == describeEntries(W, entries, i + 1, at, pushed, one.map)
       IN  [heap |-> rest.heap, map |-> rest.map, calls |-> one.calls + rest.calls]

\* describe(value) with the default heap and map.
describeValue(W, value) == describeInto(W, value, <<>>, <<>>)

LineTerminators == {"\n", "\r"}

\* /^Symbol\((.*)\)$/.exec(str): Null when there is no match, else the
\* group.  The dot matches no line terminator.
SymbolPattern(str) ==
  IF \E i \in DOMAIN str.body : str.body[i] \in LineTerminators
  THEN Null ELSE Some(str.body)

\* The object undescribe makes for a heap object.  A constructor of
\* FAKE_CONSTRUCTORS is known by the invocation that made it; madeIn 0 is a
\* built-in.
reviveObjectNoLength(object, table, serial) ==
  CASE object.type = "function" -> [value |-> [kind |-> "function", props |-> <<>>], table |-> table]
    [] object.type = "promise" -> [value |-> [kind |-> "promise", props |-> <<>>], table |-> table]
    [] object.type = "array" ->
         [value |-> [kind |-> "array", length |-> 0, props |-> <<>>], table |-> table]
    [] OTHER ->
         IF "cname" \in DOMAIN object /\ object.cname # ""
         THEN LET made == IF object.cname \in DOMAIN table THEN table
                          ELSE MapSet(table, object.cname, serial)
              IN  [value |-> [kind |-> "object", cname |-> object.cname,
                              madeIn |-> made[object.cname], props |-> <<>>],
                   table |-> made]
         ELSE [value |-> [kind |-> "object", cname |-> "Object", madeIn |-> 0,
                          props |-> <<>>],
               table |-> table]

reviveObject(object, table, serial) ==
  CASE object.type = "function" -> [value |-> [kind |-> "function", props |-> <<>>], table |-> table]
    [] object.type = "promise" -> [value |-> [kind |-> "promise", props |-> <<>>], table |-> table]
    [] object.type = "array" ->
         [value |-> [kind |-> "array",
                     length |-> IF "length" \in DOMAIN object THEN object.length ELSE 0,
                     props |-> <<>>],
          table |-> table]
    [] OTHER ->
         IF "cname" \in DOMAIN object /\ object.cname # ""
         THEN LET made == IF object.cname \in DOMAIN table THEN table
                          ELSE MapSet(table, object.cname, serial)
              IN  [value |-> [kind |-> "object", cname |-> object.cname,
                              madeIn |-> made[object.cname], props |-> <<>>],
                   table |-> made]
         ELSE [value |-> [kind |-> "object", cname |-> "Object", madeIn |-> 0,
                          props |-> <<>>],
               table |-> table]

\* The array index a key is.
IndexOf(key) == (CHOOSE k \in DOMAIN IndexText : IndexText[k] = key) - 1

\* value[key] = v
Assign(object, key, v) ==
  LET props == Append(object.props, <<key, v>>) IN
  IF object.kind = "array"
  THEN [object EXCEPT !.props = props,
                      !.length = IF IndexOf(key) + 1 > @ THEN IndexOf(key) + 1 ELSE @]
  ELSE [object EXCEPT !.props = props]

RECURSIVE undescribeInto(_, _, _, _, _), undescribeEntries(_, _, _, _, _, _, _)

\* undescribe([node, heap], revived) with FAKE_CONSTRUCTORS = table, in the
\* invocation numbered serial.  A revived object is known by its heap
\* index; a symbol made here has the identity "new".
undescribeInto(node, heap, revived, table, serial) ==
  IF node.category = "primitive"
  THEN [value |-> IF node.type = "symbol"
                  THEN LET m == SymbolPattern(node.str) IN
                       Sym("new", IF m = Null THEN Null ELSE Some(m[1]))
                  ELSE Prim(node.type, node.value),
        revived |-> revived, table |-> table]
  ELSE IF node.at \in DOMAIN revived
  THEN [value |-> Ref(node.at), revived |-> revived, table |-> table]
  ELSE LET object == heap[node.at + 1]
           made == reviveObject(object, table, serial)
           entered == undescribeEntries(object.entries, 1, node.at, heap,
                                        MapSet(revived, node.at, made.value),
                                        made.table, serial)
       IN  [value |-> Ref(node.at), revived |-> entered.revived, table |-> entered.table]

\* The loop over object.entries, from entry i on.
undescribeEntries(entries, i, at, heap, revived, table, serial) ==
  IF i > Len(entries) THEN [revived |-> revived, table |-> table]
  ELSE LET one == undescribeInto(entries[i][2], heap, revived, table, serial)
           assigned == [one.revived EXCEPT ![at] = Assign(@, entries[i][1], one.value)]
       IN  undescribeEntries(entries, i + 1, at, heap, assigned, one.table, serial)

\* undescribe(described) with the default revived list.
undescribeValue(described, table, serial) ==
  undescribeInto(described[1], described[2], <<>>, table, serial)

\* filterSteps and verifyOptions are not called.
FilterIdle ==
  givenSteps = <<>> /\ givenOptions = <<>> /\ output = <<>> /\ verdict = <<>>

DescribeInit ==
  /\ \E given \in GivenValues : givenGraph = given[1] /\ givenValue = given[2]
  /\ describedValue = <<>>
  /\ revivedValue = <<>>
  /\ FAKE_CONSTRUCTORS = <<>>
  /\ invocation = 1
  /\ RecordIdle
  /\ FilterIdle

\* report describes a value: describe(value).
CallDescribe ==
  /\ describedValue = <<>>
  /\ describedValue' = <<describeValue(givenGraph, givenValue)>>
  /\ UNCHANGED <<vars, givenSteps, givenOptions, output, verdict, givenGraph,
                 givenValue, revivedValue, FAKE_CONSTRUCTORS, invocation>>

\* The post-execution pass revives it: undescribe(described), which leaves
\* the constructors it makes in FAKE_CONSTRUCTORS.
CallUndescribe ==
  /\ describedValue # <<>>
  /\ revivedValue = <<>>
  /\ LET result == undescribeValue(<<describedValue[1].node, describedValue[1].heap>>,
                                   FAKE_CONSTRUCTORS, invocation)
     IN  /\ revivedValue' = <<[value |-> result.value, revived |-> result.revived]>>
         /\ FAKE_CONSTRUCTORS' = result.table
  /\ UNCHANGED <<vars, givenSteps, givenOptions, output, verdict, givenGraph,
                 givenValue, describedValue, invocation>>

\* record is called again, in the same module, for the same value.
RecordAgain ==
  /\ revivedValue # <<>>
  /\ invocation < MaxInvocations
  /\ invocation' = invocation + 1
  /\ describedValue' = <<>>
  /\ revivedValue' = <<>>
  /\ UNCHANGED <<vars, givenSteps, givenOptions, output, verdict, givenGraph,
                 givenValue, FAKE_CONSTRUCTORS>>

DescribeNext == CallDescribe \/ CallUndescribe \/ RecordAgain

DescribeSpec == DescribeInit /\ [][DescribeNext]_allVars

(***************************************************************************)
(* Properties of describe and undescribe.                                  *)
(***************************************************************************)
DescribeReturned == describedValue # <<>>
UndescribeReturned == revivedValue # <<>>

KeyUniverse == {IndexText[k] : k \in DOMAIN IndexText}

\* Every object of a graph is reached from the first by a path of fewer
\* than MaxObjects keys, every reference by a path of at most MaxObjects.
Paths == UNION { [1..n -> KeyUniverse] : n \in 0..MaxObjects }

\* <<v>> for the value v a list of (key, value) pairs has under the key,
\* <<>> when it has none.
Property(pairs, key) ==
  IF \E i \in DOMAIN pairs : pairs[i][1] = key
  THEN <<pairs[CHOOSE i \in DOMAIN pairs : pairs[i][1] = key][2]>>
  ELSE <<>>

RECURSIVE WalkGiven(_, _), WalkDescribed(_, _), WalkRevived(_, _)

\* <<v>> for the value the path leads to from value in the given graph.
WalkGiven(value, path) ==
  IF path = <<>> THEN <<value>>
  ELSE IF value.type # "ref" THEN <<>>
  ELSE LET next == Property(givenGraph[value.id].entries, Head(path)) IN
       IF next = <<>> THEN <<>> ELSE WalkGiven(next[1], Tail(path))

\* The same from a descriptor, through the heap describe returned.
WalkDescribed(node, path) ==
  IF path = <<>> THEN <<node>>
  ELSE IF node.category # "compound" THEN <<>>
  ELSE LET next == Property(describedValue[1].heap[node.at + 1].entries, Head(path)) IN
       IF next = <<>> THEN <<>> ELSE WalkDescribed(next[1], Tail(path))

\* The same from a revived value, through the objects undescribe made.
WalkRevived(value, path) ==
  IF path = <<>> THEN <<value>>
  ELSE IF value.type # "ref" THEN <<>>
  ELSE LET next == Property(revivedValue[1].revived[value.id].props, Head(path)) IN
       IF next = <<>> THEN <<>> ELSE WalkRevived(next[1], Tail(path))

\* The paths that lead to an object of the given graph.
ObjectPaths ==
  {path \in Paths : WalkGiven(givenValue, path) # <<>>
                      /\ WalkGiven(givenValue, path)[1].type = "ref"}

ObjectAt(path) == WalkGiven(givenValue, path)[1].id

\* The objects describe has to describe.
Reachable == {ObjectAt(path) : path \in ObjectPaths}

RECURSIVE EntriesOf(_)
EntriesOf(objects) ==
  IF objects = {} THEN 0
  ELSE LET o == CHOOSE x \in objects : TRUE
       IN  Len(givenGraph[o].entries) + EntriesOf(objects \ {o})

\* Every descriptor of what describe returned.
Descriptors ==
  LET heap == describedValue[1].heap IN
  {describedValue[1].node}
    \cup UNION { {heap[i].entries[k][2] : k \in DOMAIN heap[i].entries} : i \in DOMAIN heap }

HeapType == [function |-> "function", promise |-> "promise", array |-> "array",
             plain |-> "object", instance |-> "object"]

\* C18: describe ends on every graph, cyclic ones too, after one invocation
\* for the value and one for each property of each object reached; the heap
\* has exactly one entry per object reached; every at of the descriptor and
\* of the heap entries is an index of that heap; and every encounter of an
\* object gives the index recorded at its first encounter, where the heap
\* has the object's entry.
C18_EachObjectDescribedOnce ==
  DescribeReturned =>
    LET heap == describedValue[1].heap
        map == describedValue[1].map
    IN  /\ \A d \in Descriptors :
             d.category = "compound" => d.at \in 0..(Len(heap) - 1)
        /\ Len(heap) = Cardinality(Reachable)
        /\ describedValue[1].calls = 1 + EntriesOf(Reachable)
        /\ DOMAIN map = Reachable
        /\ \A o1, o2 \in Reachable : o1 # o2 => map[o1] # map[o2]
        /\ \A path \in ObjectPaths :
             LET d == WalkDescribed(describedValue[1].node, path) IN
             /\ d # <<>>
             /\ d[1] = [category |-> "compound", at |-> map[ObjectAt(path)]]
             /\ heap[d[1].at + 1].type = HeapType[givenGraph[ObjectAt(path)].kind]
             /\ Len(heap[d[1].at + 1].entries) = Len(givenGraph[ObjectAt(path)].entries)

\* A graph of two objects that refer to each other and to themselves has
\* been described: the second object is met on two paths, the first is met
\* again below itself.
C18_Witness ==
  /\ DescribeReturned
  /\ givenValue = Ref(1)
  /\ Len(describedValue[1].heap) = 2
  /\ \E p, q \in ObjectPaths : p # q /\ ObjectAt(p) = 2 /\ ObjectAt(q) = 2
  /\ \E p \in ObjectPaths : p # <<>> /\ ObjectAt(p) = 1

\* The paths that lead somewhere in the given graph.
ValuePaths == {path \in Paths : WalkGiven(givenValue, path) # <<>>}

GivenAt(path) == WalkGiven(givenValue, path)[1]
RevivedAt(path) == WalkRevived(revivedValue[1].value, path)[1]

\* The revived value has a value wherever the given one has, of the same
\* type.
SameShape ==
  \A path \in ValuePaths :
    /\ WalkRevived(revivedValue[1].value, path) # <<>>
    /\ RevivedAt(path).type = GivenAt(path).type

\* Strings, numbers, booleans, null and undefined come back as they were.
PlainPrimitivesPreserved ==
  \A path \in ValuePaths :
    GivenAt(path).type \in PrimitiveTypes => RevivedAt(path) = GivenAt(path)

\* Every array comes back as an array of the same length.
ArrayLengthPreserved ==
  \A path \in ObjectPaths :
    givenGraph[ObjectAt(path)].kind = "array" =>
      LET revived == revivedValue[1].revived[RevivedAt(path).id] IN
      revived.kind = "array" /\ revived.length = givenGraph[ObjectAt(path)].length

\* Two references to one object, a reference back to an ancestor included,
\* come back as references to one revived object, and references to two
\* objects as references to two.
SharingPreserved ==
  LET pairs == { <<ObjectAt(path), RevivedAt(path).id>> : path \in ObjectPaths } IN
  \A a, b \in pairs : (a[1] = b[1]) <=> (a[2] = b[2])

\* C19 as stated: undescribe(describe(v)) preserves the primitive values
\* identically, symbols among them, the length of every array, and sharing
\* and cycles.
C19_RoundTripPreserves ==
  UndescribeReturned =>
    /\ SameShape
    /\ PlainPrimitivesPreserved
    /\ \A path \in ValuePaths :
         GivenAt(path).type = "symbol" => RevivedAt(path) = GivenAt(path)
    /\ ArrayLengthPreserved
    /\ SharingPreserved

\* The description of the symbol undescribe makes for a given symbol: the
\* given description, the empty string when there was none, and none when
\* the description has a line terminator.
RevivedDescription(symbol) ==
  LET text == IF symbol.description = Null THEN <<>> ELSE symbol.description[1] IN
  IF \E i \in DOMAIN text : text[i] \in {"\n", "\r"} THEN Null ELSE Some(text)

\* C19, amended: undescribe(describe(v)) preserves strings, numbers,
\* booleans, null and undefined identically, the length of every array, and
\* sharing and cycles; a symbol comes back as a new symbol, with the given
\* description when that has no line terminator (the empty string when
\* there was none).
C19_RoundTripButSymbols ==
  UndescribeReturned =>
    /\ SameShape
    /\ PlainPrimitivesPreserved
    /\ \A path \in ValuePaths :
         GivenAt(path).type = "symbol" =>
           /\ RevivedAt(path).id # GivenAt(path).id
           /\ RevivedAt(path).description = RevivedDescription(GivenAt(path))
    /\ ArrayLengthPreserved
    /\ SharingPreserved

\* A revived graph: the first object holds a symbol, itself and the second
\* object, an array ending with a hole that is met on two paths.
C19_Witness ==
  /\ UndescribeReturned
  /\ Len(givenGraph) = 2
  /\ givenGraph[2].kind = "array"
  /\ \E path \in ValuePaths : GivenAt(path).type = "symbol"
  /\ \E p, q \in ObjectPaths : p # q /\ ObjectAt(p) = 2 /\ ObjectAt(q) = 2
  /\ \E p \in ObjectPaths : p # <<>> /\ ObjectAt(p) = 1
  /\ \E p \in ObjectPaths :
       /\ ObjectAt(p) = 2
       /\ revivedValue[1].revived[RevivedAt(p).id].length
            > Len(revivedValue[1].revived[RevivedAt(p).id].props)

\* What undescribe returns in this invocation when no earlier call has left
\* anything in FAKE_CONSTRUCTORS.
RevivedAfresh ==
  LET result == undescribeValue(<<describedValue[1].node, describedValue[1].heap>>,
                                <<>>, invocation)
  IN  [value |-> result.value, revived |-> result.revived]

\* C20: no state is retained between record invocations: the constructor
\* table undescribe uses is as it was when the module was loaded whatever
\* calls were made, and what a call returns is what it returns with no call
\* before it.
C20_NoStateRetained ==
  /\ FAKE_CONSTRUCTORS = <<>>
  /\ UndescribeReturned => revivedValue[1] = RevivedAfresh

\* What describe returns does not depend on the calls made before.
C20_DescribeRetainsNothing ==
  DescribeReturned => describedValue[1] = describeValue(givenGraph, givenValue)

\* The second invocation has revived an object whose constructor the first
\* invocation made.
C20_ConstructorOfEarlierCall ==
  /\ UndescribeReturned
  /\ invocation = 2
  /\ \E at \in DOMAIN revivedValue[1].revived :
       /\ revivedValue[1].revived[at].kind = "object"
       /\ revivedValue[1].revived[at].madeIn = 1

(***************************************************************************)
(* Properties of the instrumented program: loops, returns, calls, updates, *)
(* scopes, and the limits while the program goes on.                       *)
(***************************************************************************)
\* The last report call of this invocation raised limit-exceeded.
LimitRaised == lastReport.did \in {"time", "steps"}

\* C30: once report has raised a limit-exceeded error, every later report
\* call of the invocation raises limit-exceeded again and the step list grows
\* no more, also when the program catches the error and goes on; record
\* does not resolve after a limit was hit.
C30_LimitStays ==
  [][ LimitRaised =>
        /\ LimitRaised'
        /\ Len(steps') = Len(steps)
        /\ pc' # "resolved" ]_allVars

\* The program caught the error of a limit that a report call in a try block
\* raised, went on into the catch clause, and the next report call raised
\* again: record has rejected with the second error.
C30_Witness ==
  /\ source = "tryPasses"
  /\ pc = "rejected"
  /\ LimitRaised
  /\ lastReport.node = 7
  /\ lastReport.time = "before"

\* The nodes that enclose node n.
RECURSIVE Ancestors(_, _)
Ancestors(P, n) ==
  IF Parent(P, n) = 0 THEN {} ELSE {Parent(P, n)} \cup Ancestors(P, Parent(P, n))

\* The steps the reporter recorded (the init step is no reporter's).
ReportedSteps == {i \in DOMAIN steps : steps[i].category # "init"}

\* C27: in every step's scopes list the lexical scopes are ordered outermost
\* first and innermost last: each scope encloses the scopes after it.
C27_OutermostFirst ==
  \A i \in ReportedSteps :
    \A a, b \in DOMAIN steps[i].scopes :
      a < b => steps[i].scopes[a].scope
                 \in Ancestors(Programs[source], steps[i].scopes[b].scope)

\* The nodes around each node of each program, and the nodes owning a scope.
Above ==
  [src \in DOMAIN Programs |->
     [n \in DOMAIN Programs[src] |-> Ancestors(Programs[src], n)]]
ScopeOwners ==
  [src \in DOMAIN Programs |->
     {n \in DOMAIN Programs[src] : OwnsScope(Programs[src], n)}]

\* C27, as the code has it: in every step's scopes list the scopes are ordered
\* innermost first and outermost last: the first is the scope the reported
\* node is in, each later one encloses the ones before it, and the last is
\* the program's scope.
C27_InnermostFirst ==
  \A i \in ReportedSteps :
    LET scopes == steps[i].scopes
        above == Above[source]
        around == above[steps[i].loc]
    IN  /\ scopes # <<>>
        /\ scopes[1].scope \in around
        /\ \A n \in (around \cap ScopeOwners[source]) \ {scopes[1].scope} :
             n \in above[scopes[1].scope]
        /\ scopes[Len(scopes)].scope = 1
        /\ \A a, b \in DOMAIN scopes :
             a < b => scopes[b].scope \in above[scopes[a].scope]

\* A step reported inside a nested scope was recorded.
C27_Witness ==
  \E i \in ReportedSteps : Len(steps[i].scopes) >= 2

\* C29: a describe-time failure on an exotic value is recovered locally: when
\* the value of a step is one describe cannot handle (an object without a
\* constructor, such as `Object.create(null)`), the failure is swallowed and
\* record still resolves with the trace; no record ends rejected because
\* describe threw inside report.
C29_DescribeFailureSwallowed ==
  lastReport.did = "threw" => ~Rejected

\* The for statements of a program with an absent init, test or update.
ForWithAbsentSlot(P) ==
  {n \in DOMAIN P : P[n].type = "ForStatement"
                     /\ \E slot \in 1..3 : P[n].kids[slot] = 0}

\* C22: a for statement with any of init, test or update absent is still
\* transformed and traced; record does not fail because a slot is missing
\* (it rejects, if at all, only with a limit that was exceeded).
C22_AbsentSlotIsTraced ==
  (source \in DOMAIN Programs /\ ForWithAbsentSlot(Programs[source]) # {})
    => /\ pc # "start" => code # <<>>
       /\ Rejected => rejection[1].cls = "LimitExceededError"

\* The for statements of the program being recorded.
ForStatements ==
  IF source \in DOMAIN Programs
  THEN {n \in DOMAIN Programs[source] : Programs[source][n].type = "ForStatement"}
  ELSE {}

\* The after steps recorded for node n, in the order of the trace.
AfterStepsOf(n) ==
  {i \in ReportedSteps : steps[i].loc = n /\ steps[i].time = "after"}

\* C21: the instrumented form of `for (I; T; U) B` performs the evaluations
\* of the original loop: per iteration T, B, U in that order, with U
\* evaluated after every iteration whose body completes normally or by
\* `continue`.  So between two evaluations of T there is one of U, and a loop
\* counting i from 0 while i < 1 is left with i = 1.
C21_UpdateAfterEveryIteration ==
  \A n \in ForStatements :
    LET T == Programs[source][n].kids[2]
        U == Programs[source][n].kids[3]
    IN  (T # 0 /\ U # 0) =>
          /\ \A i, j \in AfterStepsOf(T) :
                i < j => \E k \in AfterStepsOf(U) : i < k /\ k < j
          /\ Resolved => bindings["i"].value = Num(1)

\* Statements that end by transferring control instead of completing.
AbruptTypes == {"ThrowStatement", "ContinueStatement", "BreakStatement"}

\* The before steps of statements, in the order of the trace.
StatementBefore ==
  {i \in ReportedSteps : steps[i].category = "statement" /\ steps[i].time = "before"}

\* Step j is the after step of the statement whose before step is step i.
AfterOf(i, j) ==
  /\ j > i
  /\ steps[j].category = "statement"
  /\ steps[j].time = "after"
  /\ steps[j].type = steps[i].type
  /\ steps[j].loc = steps[i].loc

\* C24: every executed non-block statement other than a function declaration
\* that completes normally yields a before step before its execution and an
\* after step after it, with the same type and loc; this includes for, while
\* and return statements.  Stated on the traces of records that resolved.
C24_EveryStatementHasAfter ==
  Resolved =>
    \A i \in StatementBefore :
      steps[i].type \notin AbruptTypes => \E j \in ReportedSteps : AfterOf(i, j)

\* The while statements of the program being recorded.
WhileStatements ==
  IF source \in DOMAIN Programs
  THEN {n \in DOMAIN Programs[source] : Programs[source][n].type = "WhileStatement"}
  ELSE {}

\* The steps recorded for node n, and its before steps.
StepsOf(n) == {i \in ReportedSteps : steps[i].loc = n}
BeforeStepsOf(n) == {i \in StepsOf(n) : steps[i].time = "before"}

\* The nodes below node n.
Below(P, n) == {m \in DOMAIN P : n \in Ancestors(P, m)}

\* The value of step i is the boolean written text (the values of the raw
\* steps are described; undescribeSteps revives them before record resolves).
ValueIs(i, text) ==
  /\ "value" \in DOMAIN steps[i]
  /\ LET value == IF Resolved THEN steps[i].value ELSE undescribe(steps[i].value)
     IN  value.type = "boolean" /\ value.value = text

\* C23: for `while (T) B`, each iteration records a before step for T, then
\* the steps of T's sub-expressions, then an after step for T carrying T's
\* value; T is evaluated exactly once per iteration, B runs iff that value
\* is truthy, and the loop ends at the first falsy value of T, so a loop with
\* n body iterations yields n + 1 before/after pairs for T.
C23_WhileTestPerIteration ==
  \A w \in WhileStatements :
    LET P == Programs[source]
        T == P[w].kids[1]
        B == P[w].kids[2]
        first == P[B].kids[1]
    IN  \* a before step of T is followed by the steps of T's
        \* sub-expressions, each evaluated once, and then by T's after step
        /\ \A i \in BeforeStepsOf(T) :
              \A j \in ReportedSteps :
                (j > i /\ \A k \in (i + 1)..j : steps[k].loc # T)
                  => /\ steps[j].loc \in Below(P, T)
                     /\ \A k \in (i + 1)..(j - 1) : steps[k].loc # steps[j].loc
        /\ \A j \in AfterStepsOf(T) :
              /\ j - 1 \in ReportedSteps
              /\ \E i \in BeforeStepsOf(T) :
                    i < j /\ \A k \in (i + 1)..(j - 1) : steps[k].loc \in Below(P, T)
              \* the body runs iff the value is truthy ...
              /\ (ValueIs(j, "true") /\ j < Len(steps))
                    => steps[j + 1].loc = first /\ steps[j + 1].time = "before"
              \* ... and the loop ends at the first falsy value
              /\ ValueIs(j, "false")
                    => \A k \in ReportedSteps :
                         k > j => steps[k].loc \notin {T} \cup Below(P, w)
              /\ ValueIs(j, "true") \/ ValueIs(j, "false")
        \* n body iterations, n + 1 pairs
        /\ Resolved =>
              /\ Cardinality(BeforeStepsOf(T)) = Cardinality(BeforeStepsOf(first)) + 1
              /\ Cardinality(AfterStepsOf(T)) = Cardinality(BeforeStepsOf(first)) + 1

\* The record of `let x = 0; while (x < 1) { x++; }` resolved: one iteration
\* of the body and two evaluations of the test, the second one false.
C23_Witness ==
  /\ source = "whileLoop"
  /\ Resolved
  /\ Cardinality(AfterStepsOf(5)) = 2
  /\ Cardinality(BeforeStepsOf(9)) = 1
  /\ \E j \in AfterStepsOf(5) : ValueIs(j, "false")

\* The call expressions of the program being recorded whose callee is a
\* member expression, and the others.
CallExpressions ==
  IF source \in DOMAIN Programs
  THEN {n \in DOMAIN Programs[source] : Programs[source][n].type = "CallExpression"}
  ELSE {}
MemberCalls ==
  {c \in CallExpressions :
     Programs[source][Programs[source][c].kids[1]].type = "MemberExpression"}

\* A value as the steps show it: described while the program runs, revived
\* by undescribeSteps once record resolved.
AsStepShows(value) == IF Resolved THEN undescribe(describe(value)) ELSE describe(value)

\* The last element of a non-empty set of step indexes.
Latest(S) == CHOOSE i \in S : \A j \in S : j <= i

UpdateExpressions ==
  IF source \in DOMAIN Programs
  THEN {n \in DOMAIN Programs[source] : Programs[source][n].type = "UpdateExpression"}
  ELSE {}

\* The number a step shows as its value.
NumberAt(i) ==
  NumberOf(IF Resolved THEN steps[i].value ELSE undescribe(steps[i].value))

\* The target of update expression u occurs in the program only there.
OnlyUpdated(u) ==
  LET P == Programs[source]
      target == P[u].kids[1]
  IN  {n \in DOMAIN P : P[n].type = "Identifier" /\ P[n].name = P[target].name}
        = {target}

\* What C26 says of the values: the after step of a postfix update shows the
\* old value n of the target and that of a prefix update the new value
\* n + 1 or n - 1; the target is left holding the new value; the value of
\* the expression is the one reported.
UpdateValues(u) ==
  LET P == Programs[source]
      target == P[u].kids[1]
      x == P[target].name
      delta == IF P[u].name = "++" THEN 1 ELSE -1
  IN  /\ \A j \in AfterStepsOf(u) :
            /\ j - 1 \in AfterStepsOf(target)
            /\ NumberAt(j) = NumberAt(j - 1) + (IF P[u].prefix THEN delta ELSE 0)
      /\ (lastReport.node = u /\ lastReport.time = "after"
                               /\ lastReport.did = "recorded")
            => /\ bindings[x].value = Num(NumberAt(Len(steps) - 1) + delta)
               /\ lastValue = Num(NumberAt(Len(steps)))

\* The reads and writes of the target by a resolved program that uses it
\* only in update expression u, for each execution of u (the reads of the
\* scope snapshots, which are the reporter's and guarded, are not counted).
TargetAccesses(u, reads, writes) ==
  LET x == Programs[source][Programs[source][u].kids[1]].name IN
  (Resolved /\ OnlyUpdated(u))
    => /\ bindings[x].reads = reads * Cardinality(AfterStepsOf(u))
       /\ bindings[x].writes = writes * Cardinality(AfterStepsOf(u))

\* C26 as stated: postfix `x++` records the old value n, leaves x = n + 1
\* and has the value n; prefix `++x` records the new value; in both forms
\* the target is read once and written once per execution.
C26_ReadOnceInBothForms ==
  \A u \in UpdateExpressions :
    UpdateValues(u) /\ TargetAccesses(u, 1, 1)

\* C26: postfix `x++` records the old value n, leaves x = n + 1 and has the
\* value n; prefix `++x` records the new value n + 1.  The target is written
\* once per execution in both forms; it is read once by the postfix form and
\* twice by the prefix form (once for the sum and once for the report).
C26_PrefixReadsTwice ==
  \A u \in UpdateExpressions :
    /\ UpdateValues(u)
    /\ TargetAccesses(u, IF Programs[source][u].prefix THEN 2 ELSE 1, 1)

\* `let x = 0; let y = ++x;` resolved with x = 1 and y = 1, the after step
\* of `++x` showing 1, and x read twice and written once.
C26_Witness ==
  /\ source = "prefix" /\ Resolved
  /\ bindings["x"].value = Num(1) /\ bindings["y"].value = Num(1)
  /\ bindings["x"].reads = 2 /\ bindings["x"].writes = 1
  /\ \E j \in AfterStepsOf(5) : NumberAt(j) = 1

\* The variables of scope `owner` that step i could not read: their
\* declaration had not been executed when the step was reported (temporal
\* dead zone), its after step being later than i or missing.
Unreadable(i, owner) ==
  LET P == Programs[source] IN
  {P[d].name : d \in {n \in Declarations(P) :
                        /\ P[n].type = "VariableDeclaration"
                        /\ ScopeOf(P, n) = owner
                        /\ \A j \in AfterStepsOf(n) : j > i}}

\* No read of a binding has failed the program.
NoReferenceError == thrown # <<>> => thrown[1].cls # "ReferenceError"

\* C28 as stated: when a binding visible at a step cannot be read, the scope
\* snapshot of that step has no entry for that identifier, and the failed
\* read does not fail the trace.
C28_NoEntryForUnreadable ==
  /\ NoReferenceError
  /\ \A i \in ReportedSteps :
       \A a \in DOMAIN steps[i].scopes :
         \A id \in Unreadable(i, steps[i].scopes[a].scope) :
           id \notin DOMAIN steps[i].scopes[a].entries

\* C28: the scope snapshot of a step has an entry for every binding of the
\* scope; the entry of a binding that cannot be read (temporal dead zone) is
\* the described undefined, which the guarded read returned, and the failed
\* read does not fail the trace.
C28_UndefinedEntryForUnreadable ==
  /\ NoReferenceError
  /\ \A i \in ReportedSteps :
       \A a \in DOMAIN steps[i].scopes :
         LET owner == steps[i].scopes[a].scope
             entries == steps[i].scopes[a].entries
         IN  /\ DOMAIN entries = BindingNames(Programs[source], owner)
             /\ \A id \in Unreadable(i, owner) :
                   entries[id] = AsStepShows(Undefined)

\* The before step of `let x = ...` is recorded with x in its temporal dead
\* zone: the snapshot has the entry x, undefined, and the program goes on to
\* the after step.
C28_Witness ==
  \E i \in ReportedSteps :
    /\ steps[i].type = "VariableDeclaration"
    /\ steps[i].time = "before"
    /\ \E a \in DOMAIN steps[i].scopes :
          /\ "x" \in Unreadable(i, steps[i].scopes[a].scope)
          /\ "x" \in DOMAIN steps[i].scopes[a].entries
    /\ \E j \in ReportedSteps : AfterOf(i, j)

====
